---- MODULE Spec2Model ----
(***************************************************************************)
(* Model of the configuration datastore of bottlerocket-core-kit:          *)
(*   - MemoryDataStore (sources/api/datastore/src/memory.rs)               *)
(*   - the shipped constraint check and commit wrapper                     *)
(*     (sources/api/apiserver/src/server/controller.rs)                    *)
(*   - ConstraintCheckResult / ApprovedWrite                               *)
(*     (sources/api/datastore/src/constraints_check.rs)                    *)
(*   - Strength (sources/models/src/generator.rs)                          *)
(*   - the API server's handlers and the lock around the datastore         *)
(*     (sources/api/apiserver/src/server/mod.rs)                           *)
(*   - the migrator (sources/api/migration/migrator/src/main.rs)           *)
(*                                                                         *)
(* Strings that the code inspects by prefix (key names) are sequences of   *)
(* one-character strings, so that str::starts_with is computed, not        *)
(* assumed.  Serialized values are the JSON text the scalar codec writes.  *)
(***************************************************************************)
EXTENDS Integers, Sequences, FiniteSets, TLC

\* The datastore (MemoryDataStore) and the call just made on it.
VARIABLES pending, live, metadata, pending_metadata, last
\* The API server: the RwLock around the datastore and, per worker thread,
\* the handler it is running.
VARIABLES ds_lock, handler
\* The migrator: the datastore's parent directory and the migrator process.
VARIABLES fs, mig

store_vars == <<pending, live, metadata, pending_metadata, last>>
server_vars == <<ds_lock, handler>>
migrator_vars == <<fs, mig>>
vars == <<pending, live, metadata, pending_metadata, last, ds_lock, handler, fs, mig>>

(***************************************************************************)
(* Bounds of the model.                                                    *)
(***************************************************************************)
\* Largest number of populated entries (data values plus metadata values,
\* over Live and every pending transaction) a write may grow the store to.
MaxEntries == 3

(***************************************************************************)
(* Universe of inputs.                                                     *)
(***************************************************************************)
Settings_a == <<"s", "e", "t", "t", "i", "n", "g", "s", ".", "a">>
Settings_b == <<"s", "e", "t", "t", "i", "n", "g", "s", ".", "b">>
Os_x == <<"o", "s", ".", "x">>

\* Data keys, by name.
DataKeys == {Settings_a, Settings_b, Os_x}

\* Metadata keys, by name.
MetaKeys == {"strength", "affected-services"}

\* Transaction names.
Txs == {"t1", "t2"}

\* Serialized data values.
DataValues == {"\"hi\"", "\"yo\""}

\* In the specification with metadata each dataset has one writer, whose
\* value tells where a value read later came from.
WriterValue(committed) == IF committed = <<"Live">> THEN "\"hi\"" ELSE "\"yo\""

\* The metadata keys written to a dataset: Live holds strength metadata,
\* a pending transaction may carry other metadata too.
MetaKeysFor(committed) ==
    IF committed = <<"Live">> THEN {"strength"} ELSE MetaKeys

\* Serialized metadata values a caller may write for a metadata key.
MetaValues(metadata_key) ==
    IF metadata_key = "strength"
    THEN {"\"strong\"", "\"weak\"", "\"bogus\""}
    ELSE {"\"svc\""}

\* The prefix "settings." the commit protocol reads under.
SettingsPrefix == <<"s", "e", "t", "t", "i", "n", "g", "s", ".">>

\* The empty prefix "".
EmptyPrefix == << >>

(***************************************************************************)
(* Maps (HashMap) and options.                                             *)
(***************************************************************************)
EmptyMap == << >>

Put(m, k, v) == [x \in (DOMAIN m) \cup {k} |-> IF x = k THEN v ELSE m[x]]

Remove(m, k) == [x \in (DOMAIN m) \ {k} |-> m[x]]

None == <<"None">>

Some(x) == <<"Some", x>>

\* Option::unwrap_or
unwrap_or(opt, default) == IF opt = None THEN default ELSE opt[2]

\* Committed::Live and Committed::Pending { tx }
Live == <<"Live">>

Pending(tx) == <<"Pending", tx>>

Committeds == {Live} \cup {Pending(tx) : tx \in Txs}

\* str::starts_with
starts_with(s, prefix) ==
    /\ Len(prefix) <= Len(s)
    /\ SubSeq(s, 1, Len(prefix)) = prefix

(***************************************************************************)
(* Strength and its scalar codec.                                          *)
(***************************************************************************)
Strong == "Strong"

Weak == "Weak"

\* Result::Ok / Result::Err
Ok(v) == [ok |-> TRUE, v |-> v]

Err(e) == [ok |-> FALSE, v |-> e]

\* serialize_scalar::<Strength>: kebab-case variant name as a JSON string.
serialize_strength(s) == IF s = Weak THEN "\"weak\"" ELSE "\"strong\""

\* deserialize_scalar::<Strength>: only the two variant names parse.
deserialize_strength(str) ==
    IF str = "\"strong\"" THEN Ok(Strong)
    ELSE IF str = "\"weak\"" THEN Ok(Weak)
    ELSE Err("DeserializeStrength")

(***************************************************************************)
(* MemoryDataStore: reads.                                                 *)
(***************************************************************************)
\* dataset as it would be if pending transactions were not kept apart by
\* name: every Pending{tx} resolves to the same transaction's map.
dataset_any_transaction(committed) ==
    IF committed = Live THEN Some(live)
    ELSE IF DOMAIN pending # {}
         THEN Some(pending[CHOOSE tx \in DOMAIN pending : TRUE])
         ELSE None

dataset(committed) ==
    IF committed = Live THEN Some(live)
    ELSE IF committed[2] \in DOMAIN pending THEN Some(pending[committed[2]])
    ELSE None

\* list_populated_keys as it would be without the starts_with filter.
list_populated_keys_unfiltered(prefix, committed) ==
    DOMAIN unwrap_or(dataset(committed), EmptyMap)

list_populated_keys(prefix, committed) ==
    LET ds == unwrap_or(dataset(committed), EmptyMap)
    IN {k \in DOMAIN ds : starts_with(k, prefix)}

get_key(key, committed) ==
    LET ds == unwrap_or(dataset(committed), EmptyMap)
    IN IF key \in DOMAIN ds THEN Some(ds[key]) ELSE None

key_populated(key, committed) ==
    key \in DOMAIN unwrap_or(dataset(committed), EmptyMap)

\* The map list_populated_metadata and get_metadata_raw read from.
metadata_to_use(committed) ==
    IF committed = Live THEN metadata ELSE pending_metadata

\* metadata_key_name is None or Some(name).
list_populated_metadata(prefix, committed, metadata_key_name) ==
    LET m == metadata_to_use(committed)
        meta_for_data(data_key) ==
            {mk \in DOMAIN m[data_key] :
                metadata_key_name = None \/ metadata_key_name[2] = mk}
        found == {dk \in DOMAIN m :
                    starts_with(dk, prefix) /\ meta_for_data(dk) # {}}
    IN [dk \in found |-> meta_for_data(dk)]

get_metadata_raw(metadata_key, data_key, committed) ==
    LET m == metadata_to_use(committed)
    IN IF data_key \in DOMAIN m /\ metadata_key \in DOMAIN m[data_key]
       THEN Some(m[data_key][metadata_key])
       ELSE None

list_transactions == DOMAIN pending

(***************************************************************************)
(* DataStore contract operations built on the backend's primitives.        *)
(***************************************************************************)
get_metadata(metadata_key, data_key, committed) ==
    get_metadata_raw(metadata_key, data_key, committed)

get_prefix(prefix, committed) ==
    [k \in list_populated_keys(prefix, committed) |-> get_key(k, committed)[2]]

get_metadata_prefix(prefix, committed, metadata_key_name) ==
    LET listed == list_populated_metadata(prefix, committed, metadata_key_name)
    IN [dk \in DOMAIN listed |->
          [mk \in listed[dk] |-> get_metadata_raw(mk, dk, committed)[2]]]

\* set_keys on a dataset map: one set_key per pair.
set_keys(ds, pairs) ==
    [k \in (DOMAIN ds) \cup (DOMAIN pairs) |->
        IF k \in DOMAIN pairs THEN pairs[k] ELSE ds[k]]

(***************************************************************************)
(* ConstraintCheckResult and ApprovedWrite.                                *)
(***************************************************************************)
\* ApprovedWrite { settings, metadata }: metadata is a Vec of
\* (metadata key, data key, value) triples.
ApprovedWrite(settings, md) == [settings |-> settings, metadata |-> md]

Reject(reason) == <<"Reject", reason>>

Approve(approved_write) == <<"Approve", approved_write>>

\* impl From<Option<ApprovedWrite>> for ConstraintCheckResult
ConstraintCheckResult_from(approved_write) ==
    IF approved_write = None
    THEN Reject("The write for the given transaction is rejected")
    ELSE Approve(approved_write[2])

\* impl TryFrom<ConstraintCheckResult> for ApprovedWrite
ApprovedWrite_try_from(constraint_check_result) ==
    IF constraint_check_result[1] = "Reject"
    THEN Err(<<"ConstraintCheckReject", constraint_check_result[2]>>)
    ELSE Ok(constraint_check_result[2])

(***************************************************************************)
(* The shipped constraint check, datastore_transaction_check.              *)
(***************************************************************************)
\* The match as it would be without its reject arm: weak over strong is
\* recorded whether or not the key has a Live value.
strength_match_never_rejects(pending_strength, committed_strength, may_be_value) ==
    IF \/ (pending_strength = Weak /\ committed_strength = Strong)
       \/ (pending_strength = Strong /\ committed_strength = Weak)
    THEN "push"
    ELSE "skip"

\* The match as it would be if weak over strong were rejected
\* unconditionally, without looking at the Live value.
strength_match_rejects_unpopulated(pending_strength, committed_strength, may_be_value) ==
    IF pending_strength = Strong /\ committed_strength = Weak
    THEN "push"
    ELSE IF pending_strength = Weak /\ committed_strength = Strong
    THEN "reject"
    ELSE "skip"

\* The match as it would be if the promotion to strong were recorded only
\* for a key that has a Live value.
strength_match_drops_promotion(pending_strength, committed_strength, may_be_value) ==
    IF \/ (pending_strength = Weak /\ committed_strength = Strong
              /\ may_be_value = None)
       \/ (pending_strength = Strong /\ committed_strength = Weak
              /\ may_be_value # None)
    THEN "push"
    ELSE IF pending_strength = Weak /\ committed_strength = Strong
    THEN "reject"
    ELSE "skip"

\* The match on (pending_strength, committed_strength, may_be_value):
\* "push" records a metadata write, "reject" rejects the transaction,
\* "skip" continues with the next entry.
strength_match(pending_strength, committed_strength, may_be_value) ==
    IF \/ (pending_strength = Weak /\ committed_strength = Strong
              /\ may_be_value = None)
       \/ (pending_strength = Strong /\ committed_strength = Weak)
    THEN "push"
    ELSE IF pending_strength = Weak /\ committed_strength = Strong
    THEN "reject"
    ELSE "skip"

\* Whether the loop body is entered for a metadata key (the others are
\* skipped with a warning).
is_strength_key(metadata_key) == metadata_key = "strength"

\* committed_strength: the Live strength of key, Strong when absent.
committed_strength_of(metadata_key, key) ==
    LET raw == get_metadata(metadata_key, key, Live)
    IN IF raw = None THEN Ok(Strong) ELSE deserialize_strength(raw[2])

\* The two nested for loops over transaction_metadata, entry i of the visit
\* order onwards; visit is the sequence of (data key, metadata key) pairs in
\* the order the HashMap iterators yield them.
RECURSIVE check_loop(_, _, _, _, _)
check_loop(transaction_metadata, settings_to_commit, visit, i, metadata_to_commit) ==
    IF i > Len(visit)
    THEN Ok(ConstraintCheckResult_from(
                Some(ApprovedWrite(settings_to_commit, metadata_to_commit))))
    ELSE
      LET key == visit[i][1]
          metadata_key == visit[i][2]
          metadata_value == transaction_metadata[key][metadata_key]
          pending_strength == deserialize_strength(metadata_value)
          committed_strength == committed_strength_of(metadata_key, key)
          may_be_value == get_key(key, Live)
      IN IF ~is_strength_key(metadata_key)
         THEN check_loop(transaction_metadata, settings_to_commit, visit, i + 1,
                         metadata_to_commit)
         ELSE IF ~pending_strength.ok THEN Err("DeserializeStrength")
         ELSE IF ~committed_strength.ok THEN Err("DeserializeStrength")
         ELSE
           LET arm == strength_match(pending_strength.v, committed_strength.v,
                                     may_be_value)
           IN IF arm = "push"
              THEN check_loop(transaction_metadata, settings_to_commit, visit, i + 1,
                       Append(metadata_to_commit,
                              <<metadata_key, key,
                                serialize_strength(pending_strength.v)>>))
              ELSE IF arm = "reject"
              THEN Ok(Reject(<<"Cannot change setting strength from strong to weak",
                               key>>))
              ELSE check_loop(transaction_metadata, settings_to_commit, visit, i + 1,
                              metadata_to_commit)

\* All sequences without repetition over the set S.
Orders(S) ==
    {f \in [1..Cardinality(S) -> S] : \A i, j \in DOMAIN f : f[i] = f[j] => i = j}

\* Concatenation, over the data keys in key_order, of one data key's
\* (data key, metadata key) pairs in that key's inner order.
RECURSIVE flatten(_, _, _)
flatten(key_order, inner_order, i) ==
    IF i > Len(key_order) THEN << >>
    ELSE [j \in DOMAIN inner_order[key_order[i]] |->
              <<key_order[i], inner_order[key_order[i]][j]>>]
         \o flatten(key_order, inner_order, i + 1)

\* The orders in which iterating a HashMap<Key, HashMap<Key, String>> can
\* yield its entries: any order of the data keys, and within each any order
\* of its metadata keys.
VisitOrders(transaction_metadata) ==
    LET inner_orders ==
            {io \in [DOMAIN transaction_metadata ->
                        UNION {Orders(DOMAIN transaction_metadata[k]) :
                                  k \in DOMAIN transaction_metadata}] :
                \A k \in DOMAIN transaction_metadata :
                    io[k] \in Orders(DOMAIN transaction_metadata[k])}
    IN {flatten(ko, io, 1) :
            ko \in Orders(DOMAIN transaction_metadata), io \in inner_orders}

datastore_transaction_check(committed, visit) ==
    LET settings_to_commit == get_prefix(SettingsPrefix, committed)
        transaction_metadata == get_metadata_prefix(SettingsPrefix, committed, None)
    IN check_loop(transaction_metadata, settings_to_commit, visit, 1, << >>)

\* datastore_transaction_check_wrapper only boxes the error.
datastore_transaction_check_wrapper(committed, visit) ==
    datastore_transaction_check(committed, visit)

(***************************************************************************)
(* MemoryDataStore: writes, as functions of the maps they change.          *)
(***************************************************************************)
\* HashMap::entry(k).or_default()
entry_or_default(m, k) == IF k \in DOMAIN m THEN m ELSE Put(m, k, EmptyMap)

set_metadata_raw(metadata_map, metadata_key, data_key, value) ==
    LET with_entry == entry_or_default(metadata_map, data_key)
    IN Put(with_entry, data_key, Put(with_entry[data_key], metadata_key, value))

\* The unwrap_or as it would be if a failed check fell back to an empty
\* approval instead of a rejection.
check_result_or_approve(check_result) ==
    IF check_result.ok THEN check_result.v
    ELSE Approve(ApprovedWrite(EmptyMap, << >>))

\* constraint_check(self, &pending).unwrap_or(Reject(..)): an error of the
\* check function becomes a rejection.
check_result_or_reject(check_result) ==
    IF check_result.ok THEN check_result.v
    ELSE Reject("Check constraint function rejected the transaction. Aborting commit")

\* The removal as it would be if it dropped every pending transaction.
remove_transaction_all(pending_map, tx) == EmptyMap

\* The commit as it would be if it left the transaction in the pending map.
remove_transaction_keeps(pending_map, tx) == pending_map

\* self.pending.remove(tx)
remove_transaction(pending_map, tx) == Remove(pending_map, tx)

\* What commit_transaction does for transaction tx when the HashMap
\* iteration of the check visits the pending metadata in the order visit:
\* the check's own result, the value returned, and Live and pending after.
commit_outcome(tx, visit) ==
    LET check_result == datastore_transaction_check_wrapper(Pending(tx), visit)
        constraint_check_result == check_result_or_reject(check_result)
        approved_write == ApprovedWrite_try_from(constraint_check_result)
    IN IF ~approved_write.ok
       THEN [check |-> check_result, result |-> Err(approved_write.v),
             live |-> live, pending |-> pending]
       ELSE LET settings == approved_write.v.settings
                pending_keys == IF DOMAIN settings # {} THEN DOMAIN settings ELSE {}
            IN [check |-> check_result, result |-> Ok(pending_keys),
                live |-> IF DOMAIN settings # {} THEN set_keys(live, settings) ELSE live,
                pending |-> remove_transaction(pending, tx)]

\* The result as it would be if a missing transaction were an error.
delete_result_missing_is_error(tx) ==
    IF tx \in DOMAIN pending THEN Ok(DOMAIN pending[tx])
    ELSE Err("NoSuchTransaction")

\* What delete_transaction returns for tx.
delete_result(tx) ==
    IF tx \in DOMAIN pending THEN Ok(DOMAIN pending[tx]) ELSE Ok({})

(***************************************************************************)
(* The API server (server/mod.rs): worker threads and the datastore lock.  *)
(***************************************************************************)
\* The worker threads actix runs handlers on.
Workers == {"w1", "w2"}

NoThread == "none"

\* A worker between requests.
IdleHandler ==
    [pc |-> "idle", request |-> "", tx |-> "", settings |-> EmptyMap, strength |-> Strong,
     approved |-> EmptyMap, to_write |-> EmptyMap, response |-> None]

(***************************************************************************)
(* State.                                                                  *)
(***************************************************************************)
\* Number of populated data and metadata entries of the whole store.
Entries ==
    Cardinality(
        {<<"live", k>> : k \in DOMAIN live}
        \cup UNION {{<<"pending", t, k>> : k \in DOMAIN pending[t]} : t \in DOMAIN pending}
        \cup UNION {{<<"metadata", k, mk>> : mk \in DOMAIN metadata[k]} : k \in DOMAIN metadata}
        \cup UNION {{<<"pending_metadata", k, mk>> : mk \in DOMAIN pending_metadata[k]} :
                        k \in DOMAIN pending_metadata})

NoCheck == Ok(<<"NoCheck">>)

\* The call just made: its arguments, its return value and, for a commit,
\* what the constraint check returned.
Call(op, committed, key, metadata_key, value, result, check) ==
    [op |-> op, committed |-> committed, key |-> key, metadata_key |-> metadata_key,
     value |-> value, result |-> result, check |-> check]

\* MemoryDataStore::new()
StoreInit ==
    /\ pending = EmptyMap
    /\ live = EmptyMap
    /\ metadata = EmptyMap
    /\ pending_metadata = EmptyMap
    /\ last = Call("new", Live, << >>, "", "", Ok({}), NoCheck)

\* The server before any request: the lock is free and every worker idle.
ServerInit ==
    /\ ds_lock = [writer |-> NoThread, readers |-> {}]
    /\ handler = [t \in Workers |-> IdleHandler]

\* No migrator process and an empty parent directory.
MigratorInit ==
    /\ fs = [links |-> EmptyMap, dirs |-> EmptyMap, result_txt |-> << >>]
    /\ mig = [pc |-> "none"]

Init == StoreInit /\ ServerInit /\ MigratorInit

(***************************************************************************)
(* Operations.                                                             *)
(***************************************************************************)
SetKey(key, value, committed) ==
    /\ key_populated(key, committed) \/ Entries < MaxEntries
    /\ IF committed = Live
       THEN /\ live' = Put(live, key, value)
            /\ pending' = pending
       ELSE LET tx == committed[2]
                with_entry == entry_or_default(pending, tx)
            IN /\ pending' = Put(with_entry, tx, Put(with_entry[tx], key, value))
               /\ live' = live
    /\ UNCHANGED <<metadata, pending_metadata>>
    /\ last' = Call("set_key", committed, key, "", value, Ok({}), NoCheck)
    /\ UNCHANGED <<server_vars, migrator_vars>>

UnsetKey(key, committed) ==
    /\ IF committed = Live
       THEN /\ live' = Remove(live, key)
            /\ pending' = pending
       ELSE LET tx == committed[2]
                with_entry == entry_or_default(pending, tx)
            IN /\ pending' = Put(with_entry, tx, Remove(with_entry[tx], key))
               /\ live' = live
    /\ UNCHANGED <<metadata, pending_metadata>>
    /\ last' = Call("unset_key", committed, key, "", "", Ok({}), NoCheck)
    /\ UNCHANGED <<server_vars, migrator_vars>>

SetMetadata(metadata_key, data_key, value, committed) ==
    /\ get_metadata_raw(metadata_key, data_key, committed) # None \/ Entries < MaxEntries
    /\ IF committed = Live
       THEN /\ metadata' = set_metadata_raw(metadata, metadata_key, data_key, value)
            /\ pending_metadata' = pending_metadata
       ELSE /\ pending_metadata' =
                   set_metadata_raw(pending_metadata, metadata_key, data_key, value)
            /\ metadata' = metadata
    /\ UNCHANGED <<pending, live>>
    /\ last' = Call("set_metadata", committed, data_key, metadata_key, value, Ok({}), NoCheck)
    /\ UNCHANGED <<server_vars, migrator_vars>>

\* controller::commit_transaction: the datastore's commit_transaction with
\* the shipped check.
CommitTransaction(tx) ==
    \E visit \in VisitOrders(get_metadata_prefix(SettingsPrefix, Pending(tx), None)) :
        LET outcome == commit_outcome(tx, visit)
        IN /\ live' = outcome.live
           /\ pending' = outcome.pending
           /\ UNCHANGED <<metadata, pending_metadata>>
           /\ last' = Call("commit_transaction", Pending(tx), << >>, "", "",
                           outcome.result, outcome.check)
           /\ UNCHANGED <<server_vars, migrator_vars>>

DeleteTransaction(tx) ==
    /\ pending' = remove_transaction(pending, tx)
    /\ UNCHANGED <<live, metadata, pending_metadata>>
    /\ last' = Call("delete_transaction", Pending(tx), << >>, "", "",
                    delete_result(tx), NoCheck)
    /\ UNCHANGED <<server_vars, migrator_vars>>

(***************************************************************************)
(* Spec: the datastore with data, metadata, commit and delete.             *)
(***************************************************************************)
Next ==
    \/ \E key \in DataKeys, committed \in Committeds :
           SetKey(key, WriterValue(committed), committed)
    \/ \E data_key \in DataKeys, committed \in Committeds :
           \E metadata_key \in MetaKeysFor(committed) :
               \E value \in MetaValues(metadata_key) :
                   SetMetadata(metadata_key, data_key, value, committed)
    \/ \E tx \in Txs : CommitTransaction(tx)
    \/ \E tx \in Txs : DeleteTransaction(tx)

Spec == Init /\ [][Next]_vars

(***************************************************************************)
(* SpecData: the data side alone, every value written to every dataset     *)
(* and keys unset again; no metadata is written, so every commit is        *)
(* approved.                                                               *)
(***************************************************************************)
NextData ==
    \/ \E key \in DataKeys, value \in DataValues, committed \in Committeds :
           SetKey(key, value, committed)
    \/ \E key \in DataKeys, committed \in Committeds : UnsetKey(key, committed)
    \/ \E tx \in Txs : CommitTransaction(tx)
    \/ \E tx \in Txs : DeleteTransaction(tx)

SpecData == Init /\ [][NextData]_vars

(***************************************************************************)
(* SpecServer: API handlers run by the worker threads, each under the      *)
(* read or the write guard of the RwLock around the datastore.  A guard    *)
(* is taken on entry and dropped when the handler returns; the commit's    *)
(* reads, its Live writes (one key at a time) and its removal of the       *)
(* pending transaction are separate steps of the thread that holds the     *)
(* write guard.                                                            *)
(***************************************************************************)
\* Request bodies of PATCH /settings: the (key, value) pairs the Settings
\* serialize to.
PatchBodies ==
    {Put(EmptyMap, Settings_a, "\"yo\""),
     Put(Put(EmptyMap, Settings_a, "\"yo\""), Settings_b, "\"yo\"")}

\* The write guard as it would be if it did not wait for the readers.
write_available_despite_readers(lock) == lock.writer = NoThread

\* RwLock::write() returns a guard once there is no writer and no reader.
write_available(lock) == lock.writer = NoThread /\ lock.readers = {}

\* RwLock::read() returns a guard once there is no writer.
read_available(lock) == lock.writer = NoThread

\* controller::set_settings: the strength of every key of pairs is written
\* to the pending metadata, then the pairs into Pending{tx}.
set_settings_metadata(pairs, strength) ==
    [k \in (DOMAIN pending_metadata) \cup (DOMAIN pairs) |->
        IF k \in DOMAIN pairs
        THEN set_metadata_raw(pending_metadata, "strength", k,
                              serialize_strength(strength))[k]
        ELSE pending_metadata[k]]

set_settings_data(pairs, tx) ==
    IF DOMAIN pairs = {} THEN pending
    ELSE LET with_entry == entry_or_default(pending, tx)
         IN Put(with_entry, tx, set_keys(with_entry[tx], pairs))

\* A worker takes a request: it blocks in write() or read() until the guard
\* is granted, then runs the handler named by pc.
BeginWrite(t, pc, tx, pairs, strength) ==
    /\ handler[t].pc = "idle"
    /\ write_available(ds_lock)
    /\ ds_lock' = [ds_lock EXCEPT !.writer = t]
    /\ handler' = [handler EXCEPT ![t] =
                     [IdleHandler EXCEPT !.pc = pc, !.request = pc, !.tx = tx,
                                         !.settings = pairs,
                                         !.strength = strength]]
    /\ UNCHANGED <<store_vars, migrator_vars>>

BeginRead(t, pc, tx) ==
    /\ handler[t].pc = "idle"
    /\ read_available(ds_lock)
    /\ ds_lock' = [ds_lock EXCEPT !.readers = @ \cup {t}]
    /\ handler' = [handler EXCEPT ![t] = [IdleHandler EXCEPT !.pc = pc, !.request = pc, !.tx = tx]]
    /\ UNCHANGED <<store_vars, migrator_vars>>

\* patch_settings
PatchSettings(t) ==
    /\ handler[t].pc = "patch_settings"
    /\ pending_metadata' = set_settings_metadata(handler[t].settings, handler[t].strength)
    /\ pending' = set_settings_data(handler[t].settings, handler[t].tx)
    /\ handler' = [handler EXCEPT ![t].pc = "return", ![t].response = Some(Ok({}))]
    /\ UNCHANGED <<live, metadata, last, ds_lock, migrator_vars>>

\* commit_transaction: the constraint check and ApprovedWrite::try_from.
CommitCheck(t) ==
    /\ handler[t].pc = "commit_transaction"
    /\ \E visit \in VisitOrders(get_metadata_prefix(SettingsPrefix,
                                                    Pending(handler[t].tx), None)) :
          LET check_result ==
                  datastore_transaction_check_wrapper(Pending(handler[t].tx), visit)
              approved_write ==
                  ApprovedWrite_try_from(check_result_or_reject(check_result))
          IN IF ~approved_write.ok
             THEN handler' = [handler EXCEPT ![t].pc = "return",
                                             ![t].response = Some(Err(approved_write.v))]
             ELSE handler' = [handler EXCEPT
                     ![t].pc = IF DOMAIN approved_write.v.settings = {}
                               THEN "commit_remove" ELSE "commit_write",
                     ![t].approved = approved_write.v.settings,
                     ![t].to_write = approved_write.v.settings]
    /\ UNCHANGED <<store_vars, ds_lock, migrator_vars>>

\* commit_transaction: set_keys writes the approved keys into Live one by one.
CommitWriteKey(t) ==
    /\ handler[t].pc = "commit_write"
    /\ \E key \in DOMAIN handler[t].to_write :
          LET rest == Remove(handler[t].to_write, key)
          IN /\ live' = Put(live, key, handler[t].to_write[key])
             /\ handler' = [handler EXCEPT
                     ![t].to_write = rest,
                     ![t].pc = IF DOMAIN rest = {} THEN "commit_remove" ELSE "commit_write"]
    /\ UNCHANGED <<pending, metadata, pending_metadata, last, ds_lock, migrator_vars>>

\* commit_transaction: self.pending.remove(tx), then the handler's answer
\* (an empty change set is CommitWithNoPending).
CommitRemove(t) ==
    /\ handler[t].pc = "commit_remove"
    /\ pending' = remove_transaction(pending, handler[t].tx)
    /\ handler' = [handler EXCEPT
            ![t].pc = "return",
            ![t].response = IF DOMAIN handler[t].approved = {}
                            THEN Some(Err("CommitWithNoPending"))
                            ELSE Some(Ok(DOMAIN handler[t].approved))]
    /\ UNCHANGED <<live, metadata, pending_metadata, last, ds_lock, migrator_vars>>

\* get_settings: the Live settings.
GetSettings(t) ==
    /\ handler[t].pc = "get_settings"
    /\ handler' = [handler EXCEPT ![t].pc = "return",
                                  ![t].response = Some(Ok(get_prefix(SettingsPrefix, Live)))]
    /\ UNCHANGED <<store_vars, ds_lock, migrator_vars>>

\* get_transaction: the pending settings of a transaction.
GetTransaction(t) ==
    /\ handler[t].pc = "get_transaction"
    /\ handler' = [handler EXCEPT
            ![t].pc = "return",
            ![t].response = Some(Ok(get_prefix(SettingsPrefix, Pending(handler[t].tx))))]
    /\ UNCHANGED <<store_vars, ds_lock, migrator_vars>>

\* The handler returns and its guard is dropped.
Return(t) ==
    /\ handler[t].pc = "return"
    /\ ds_lock' = [writer |-> IF ds_lock.writer = t THEN NoThread ELSE ds_lock.writer,
                   readers |-> ds_lock.readers \ {t}]
    /\ handler' = [handler EXCEPT ![t].pc = "idle"]
    /\ UNCHANGED <<store_vars, migrator_vars>>

NextServer ==
    \/ \E t \in Workers, tx \in Txs, pairs \in PatchBodies, strength \in {Strong, Weak} :
           BeginWrite(t, "patch_settings", tx, pairs, strength)
    \/ \E t \in Workers, tx \in Txs :
           BeginWrite(t, "commit_transaction", tx, EmptyMap, Strong)
    \/ \E t \in Workers : BeginRead(t, "get_settings", "")
    \/ \E t \in Workers, tx \in Txs : BeginRead(t, "get_transaction", tx)
    \/ \E t \in Workers : PatchSettings(t)
    \/ \E t \in Workers : CommitCheck(t)
    \/ \E t \in Workers : CommitWriteKey(t)
    \/ \E t \in Workers : CommitRemove(t)
    \/ \E t \in Workers : GetSettings(t)
    \/ \E t \in Workers : GetTransaction(t)
    \/ \E t \in Workers : Return(t)

SpecServer == Init /\ [][NextServer]_vars

(***************************************************************************)
(* The migrator (migration/migrator/src/main.rs).                          *)
(*                                                                         *)
(* The datastore's parent directory holds the version links                *)
(*   current -> vMAJOR -> vMAJOR.MINOR -> vMAJOR.MINOR.PATCH -> directory  *)
(* and the datastore directories v<version>_<rando>.  A file name is a     *)
(* sequence of its parts, so that the formatting of a name from a version  *)
(* and the parsing of a version from a name are computed.  The contents of *)
(* a datastore directory are the sequence of what produced them: the       *)
(* original data, the pruning pass, and every migration applied since.     *)
(***************************************************************************)
\* Longest migration list of a manifest entry.
MaxMigrations == 3

\* How many times the migrator is started on the same parent directory.
MaxRuns == 2

\* The migrations a manifest entry can list, in manifest order (which is
\* not the alphabetical order of their names).
ManifestNames ==
    <<"b-first-migration", "a-second-migration", "third-migration", "fourth-migration">>

Versions == {<<0, 99, 0>>, <<0, 99, 1>>, <<1, 0, 0>>}

\* How a migration can go: the program exits 0; it exits non-zero, having
\* created its target directory or not; its target cannot be read from the
\* repository; its bytes cannot be decompressed; it cannot be spawned.
Outcomes ==
    {"success", "exit_nonzero_with_target", "exit_nonzero_without_target",
     "fetch_error", "decode_error", "spawn_error"}

\* semver's order of versions.
version_less(a, b) ==
    \/ a[1] < b[1]
    \/ a[1] = b[1] /\ a[2] < b[2]
    \/ a[1] = b[1] /\ a[2] = b[2] /\ a[3] < b[3]

\* File names.
CurrentLink == <<"current">>
major_version_link(version) == <<"v", version[1]>>
minor_version_link(version) == <<"v", version[1], version[2]>>
patch_version_link(version) == <<"v", version[1], version[2], version[3]>>
\* The directory name as it would be if no random id told two attempts at
\* the same version apart.
datastore_name_without_rando(version, rando) ==
    <<"v", version[1], version[2], version[3], "_", 0>>

\* format!("v{}_{}", new_version, rando())
datastore_name(version, rando) ==
    <<"v", version[1], version[2], version[3], "_", rando>>
\* to_dir.join(rando())
temp_link_name(rando) == <<"tmp", rando>>
\* starts_with(format!("v{}_", version))
has_version_prefix(name, version) ==
    Len(name) >= 5 /\ SubSeq(name, 1, 5) = <<"v", version[1], version[2], version[3], "_">>

\* Version::parse of a file name after its leading 'v'.
parse_version(name) ==
    IF Len(name) = 4 /\ name[1] = "v"
    THEN Ok(<<name[2], name[3], name[4]>>)
    ELSE Err("InvalidDataStoreVersion")

\* fs::read_link
read_link(links, link) ==
    IF link \in DOMAIN links THEN Ok(links[link]) ELSE Err("LinkRead")

\* Where a path leads when every link on the way is followed: an existing
\* directory, or nothing when a link dangles.
RECURSIVE resolve(_, _, _)
resolve(filesystem, name, depth) ==
    IF name \in DOMAIN filesystem.dirs THEN Some(name)
    ELSE IF name \in DOMAIN filesystem.links /\ depth > 0
    THEN resolve(filesystem, filesystem.links[name], depth - 1)
    ELSE None

canonicalize(filesystem, name) == resolve(filesystem, name, 8)

\* Path::exists
exists(filesystem, name) == canonicalize(filesystem, name) # None

get_current_version(filesystem) ==
    LET major == read_link(filesystem.links, CurrentLink)
    IN IF ~major.ok THEN major
       ELSE LET minor == read_link(filesystem.links, major.v)
            IN IF ~minor.ok THEN minor
               ELSE LET patch == read_link(filesystem.links, minor.v)
                    IN IF ~patch.ok THEN patch ELSE parse_version(patch.v)

\* Direction::from_versions and its Display.
Direction_from_versions(from, to) ==
    IF version_less(from, to) THEN Some("--forward")
    ELSE IF version_less(to, from) THEN Some("--backward")
    ELSE None

RECURSIVE reverse(_)
reverse(list) ==
    IF list = << >> THEN << >> ELSE Append(reverse(Tail(list)), Head(list))

\* update_metadata::find_migrations over a manifest with one entry
\* (lower version, higher version) -> list: the list going forward, the
\* same entries in reverse order going backward.
find_migrations(from, to, manifest) ==
    IF version_less(from, to) THEN manifest
    ELSE IF version_less(to, from) THEN reverse(manifest)
    ELSE << >>

\* new_datastore_location: a sibling of the given datastore named by the
\* new version and a fresh rando; an error if it exists.
new_datastore_location(filesystem, new_version, rando) ==
    LET to == datastore_name(new_version, rando)
    IN IF exists(filesystem, to) THEN Err("NewVersionAlreadyExists") ELSE Ok(to)

\* copy_without_weak_settings, on the contents of a datastore directory.
copy_without_weak_settings(contents) == Append(contents, "pruned")

\* What a migration program that succeeds writes to its target.
migrated(contents, migration) == Append(contents, migration)

\* What a migration program that fails after creating its target leaves.
partially_migrated(contents, migration) ==
    Append(Append(contents, migration), "incomplete")

\* The four flips as they would be made from the top of the chain down.
flip_links_current_first(version, to_datastore) ==
    << <<CurrentLink, major_version_link(version)>>,
       <<major_version_link(version), minor_version_link(version)>>,
       <<minor_version_link(version), patch_version_link(version)>>,
       <<patch_version_link(version), to_datastore>> >>

\* The four flips as they would be made with the minor link before the
\* patch link it points at.
flip_links_minor_first(version, to_datastore) ==
    << <<minor_version_link(version), patch_version_link(version)>>,
       <<patch_version_link(version), to_datastore>>,
       <<major_version_link(version), minor_version_link(version)>>,
       <<CurrentLink, major_version_link(version)>> >>

\* The four flips as they would be made if the first one went over the
\* patch link vX.Y.0 instead of the target version's.
flip_links_over_patch_zero(version, to_datastore) ==
    << <<patch_version_link(<<version[1], version[2], 0>>), to_datastore>>,
       <<minor_version_link(version), patch_version_link(version)>>,
       <<major_version_link(version), minor_version_link(version)>>,
       <<CurrentLink, major_version_link(version)>> >>

\* The four flips as they would be made with the patch link, the one that
\* points at the directory, swapped in last.
flip_links_patch_last(version, to_datastore) ==
    << <<minor_version_link(version), patch_version_link(version)>>,
       <<major_version_link(version), minor_version_link(version)>>,
       <<CurrentLink, major_version_link(version)>>,
       <<patch_version_link(version), to_datastore>> >>

\* The four flips of flip_to_new_version in the order it makes them: the
\* link to swap into place and what it will point at.
flip_links(version, to_datastore) ==
    << <<patch_version_link(version), to_datastore>>,
       <<minor_version_link(version), patch_version_link(version)>>,
       <<major_version_link(version), minor_version_link(version)>>,
       <<CurrentLink, major_version_link(version)>> >>

\* The version links storewolf creates for a datastore of this version.
version_chain(version, directory) ==
    Put(Put(Put(Put(EmptyMap, CurrentLink, major_version_link(version)),
                major_version_link(version), minor_version_link(version)),
            minor_version_link(version), patch_version_link(version)),
        patch_version_link(version), directory)

(***************************************************************************)
(* SpecMigrate: one run of the migrator over a parent directory.           *)
(***************************************************************************)
\* The directory of the datastore the run starts from, and a directory left
\* by an earlier stay at the target version.
original_datastore(from) == datastore_name(from, 0)
stale_datastore(to) == datastore_name(to, 1)

\* The parent directory before the run: the datastore of version from with
\* its version links and, when stale, the links and the directory an earlier
\* stay at version to has left (those that are not links of from's chain).
initial_filesystem(from, to, stale) ==
    LET chain == version_chain(from, original_datastore(from))
        old == version_chain(to, stale_datastore(to))
    IN IF stale
       THEN [links |-> [l \in (DOMAIN chain) \cup (DOMAIN old) |->
                          IF l \in DOMAIN chain THEN chain[l] ELSE old[l]],
             dirs |-> Put(Put(EmptyMap, original_datastore(from), <<"data">>),
                          stale_datastore(to), <<"stale">>),
             result_txt |-> << >>]
       ELSE [links |-> chain,
             dirs |-> Put(EmptyMap, original_datastore(from), <<"data">>),
             result_txt |-> << >>]

\* The migrator process at the start of run(args).
migrator_start(from, to, manifest, fail_at, fail_kind, stale) ==
    [pc |-> "run", exit_code |-> -1,
     datastore_path |-> original_datastore(from), migrate_to_version |-> to,
     manifest |-> manifest, fail_at |-> fail_at, fail_kind |-> fail_kind,
     before |-> initial_filesystem(from, to, stale),
     datastore |-> << >>, direction |-> "", migrations |-> << >>, i |-> 0,
     source_datastore |-> << >>, target_datastore |-> << >>,
     intermediate_datastore |-> None, to_datastore |-> << >>,
     temp_link |-> << >>, flip_step |-> 0, next_rando |-> 2,
     error |-> "", fsync_failed |-> FALSE, runs |-> 1, crashed_at |-> 0,
     delete_failed |-> FALSE]

InitMigrate ==
    /\ StoreInit /\ ServerInit
    /\ \E from \in Versions, to \in Versions, n \in 0..MaxMigrations, stale \in BOOLEAN :
          \E fail_at \in 0..n, fail_kind \in Outcomes :
             /\ (fail_at = 0) = (fail_kind = "success")
             /\ stale => from # to
             /\ fs = initial_filesystem(from, to, stale)
             /\ mig = migrator_start(from, to, SubSeq(ManifestNames, 1, n),
                                     fail_at, fail_kind, stale)

\* How the i-th migration of the resolved list goes.
outcome(i) == IF i = mig.fail_at THEN mig.fail_kind ELSE "success"

\* The process ends: main prints any error and exits 1.
exit(code) == [mig EXCEPT !.pc = "exited", !.exit_code = code]

\* run returns the error: main prints it and exits 1.
fail(error) == [mig EXCEPT !.pc = "exited", !.exit_code = 1, !.error = error]

\* flip_to_new_version is entered: the paths are built and the temporary
\* link's name drawn.
begin_flip(migrator, to_datastore) ==
    [migrator EXCEPT !.pc = "flip", !.to_datastore = to_datastore, !.flip_step = 1,
                     !.temp_link = temp_link_name(migrator.next_rando),
                     !.next_rando = @ + 1]

\* run: remove_weak_settings builds the pruned copy of the datastore at a
\* new location named by the target version.
RemoveWeakSettings ==
    /\ mig.pc = "run"
    /\ LET target_datastore ==
               new_datastore_location(fs, mig.migrate_to_version, mig.next_rando)
           source == canonicalize(fs, mig.datastore_path)
       IN IF ~target_datastore.ok \/ source = None
          THEN /\ mig' = exit(1)
               /\ fs' = fs
          ELSE /\ fs' = [fs EXCEPT !.dirs =
                           Put(@, target_datastore.v,
                               copy_without_weak_settings(fs.dirs[source[2]]))]
               /\ mig' = [mig EXCEPT !.pc = "perform_migrations",
                                     !.datastore = target_datastore.v,
                                     !.next_rando = @ + 1]
    /\ UNCHANGED <<store_vars, server_vars>>

\* The link target as the comment of the empty-list branch words it: the
\* datastore given on the command line.
noop_to_datastore_from_args(datastore_path, args_datastore_path) == args_datastore_path

\* What flip_to_new_version is given when there is no migration to run:
\* perform_migrations' own datastore_path, which run has set to the copy
\* without weak settings.
noop_to_datastore(datastore_path, args_datastore_path) == datastore_path

\* The loop as it would be if it took its first source for an intermediate
\* data store.
first_intermediate_datastore_is_source(source_datastore) == Some(source_datastore)

\* let mut intermediate_datastore = Option::default(): before the first
\* migration there is no intermediate data store to delete.
first_intermediate_datastore(source_datastore) == None

\* perform_migrations up to the choice between the two branches: the current
\* version, the direction (equal versions exit 0), the migration list.
PerformMigrations ==
    /\ mig.pc = "perform_migrations"
    /\ LET current_version == get_current_version(fs)
       IN IF ~current_version.ok THEN mig' = exit(1)
          ELSE LET direction ==
                       Direction_from_versions(current_version.v, mig.migrate_to_version)
                   migrations ==
                       find_migrations(current_version.v, mig.migrate_to_version,
                                       mig.manifest)
               IN IF direction = None THEN mig' = exit(0)
                  ELSE IF migrations = << >>
                  THEN mig' = begin_flip([mig EXCEPT !.direction = direction[2]],
                                         noop_to_datastore(mig.datastore,
                                                           mig.datastore_path))
                  ELSE mig' = [mig EXCEPT !.pc = "run_migrations",
                                          !.direction = direction[2],
                                          !.migrations = migrations, !.i = 1,
                                          !.source_datastore = mig.datastore,
                                          !.target_datastore = mig.datastore,
                                          !.intermediate_datastore =
                                              first_intermediate_datastore(mig.datastore)]
    /\ fs' = fs
    /\ UNCHANGED <<store_vars, server_vars>>

\* The migration program's side of the invocation contract: it creates its
\* target directory when it succeeds, and may have when it fails.
program_creates_target(result) == result \in {"success", "exit_nonzero_with_target"}

\* The check as it would be if the exit status of a program that has
\* written its target were not looked at.
status_success_unchecked(result) == result \in {"success", "exit_nonzero_with_target"}

\* output.status.success()
status_success(result) == result = "success"

\* The deletion as it would be if its error were returned to the loop.
delete_intermediate_error_returned(removed) == IF removed THEN None ELSE Some("RemoveDir")

\* if let Err(e) = fs::remove_dir_all(path) { error!(..) }: the error is
\* logged, nothing is returned to the loop.
delete_intermediate_error(removed) == None

\* The loop as it would be if it kept every intermediate data store.
delete_intermediate_datastore_never(dirs, path, removed) == dirs

\* delete_intermediate_datastore: fs::remove_dir_all; when it fails the
\* error is logged and the directory is still there.
delete_intermediate_datastore(dirs, path, removed) ==
    IF removed THEN Remove(dirs, path) ELSE dirs

\* The loop as it would be if it went through the list from its end.
nth_migration_from_end(migrations, i) == migrations[Len(migrations) + 1 - i]

\* for migration in migrations: the i-th turn takes the i-th entry.
nth_migration(migrations, i) == migrations[i]

\* The loop as it would be if every migration read the first source.
next_source_datastore_unchanged(source_datastore, target_datastore) == source_datastore

\* source_datastore = &target_datastore: the next turn reads what this one
\* wrote.
next_source_datastore(source_datastore, target_datastore) == target_datastore

\* run_migrations: one turn of its loop, for the i-th migration of the
\* list; after the last one flip_to_new_version is entered with its output.
\* The deletion of the previous intermediate data store may fail; the
\* environment is taken to fail at most one deletion.
RunMigration ==
    /\ mig.pc = "run_migrations"
    /\ \E removed \in BOOLEAN :
       /\ (mig.intermediate_datastore = None \/ ~status_success(outcome(mig.i))) => removed
       /\ mig.delete_failed => removed
       /\ LET migration == nth_migration(mig.migrations, mig.i)
              target_datastore ==
                  new_datastore_location(fs, mig.migrate_to_version, mig.next_rando)
              command == <<migration, mig.direction, mig.source_datastore, target_datastore.v>>
              source_contents == fs.dirs[mig.source_datastore]
          IN IF outcome(mig.i) \in {"fetch_error", "decode_error"} \/ ~target_datastore.ok
             THEN /\ mig' = exit(1)
                  /\ fs' = fs
             ELSE IF outcome(mig.i) = "spawn_error"
             THEN /\ mig' = [exit(1) EXCEPT !.target_datastore = target_datastore.v,
                                            !.next_rando = @ + 1]
                  /\ fs' = fs
             ELSE LET created == IF ~program_creates_target(outcome(mig.i)) THEN fs.dirs
                                 ELSE Put(fs.dirs, target_datastore.v,
                                          IF outcome(mig.i) = "success"
                                          THEN migrated(source_contents, migration)
                                          ELSE partially_migrated(source_contents, migration))
                  IN
             IF ~status_success(outcome(mig.i))
             THEN /\ mig' = [exit(1) EXCEPT !.target_datastore = target_datastore.v,
                                            !.next_rando = @ + 1]
                  /\ fs' = [fs EXCEPT !.result_txt = Append(@, command), !.dirs = created]
             ELSE LET kept == IF mig.intermediate_datastore = None THEN created
                              ELSE delete_intermediate_datastore(
                                       created, mig.intermediate_datastore[2], removed)
                      next == [mig EXCEPT !.target_datastore = target_datastore.v,
                                          !.delete_failed = @ \/ ~removed,
                                          !.intermediate_datastore = Some(target_datastore.v),
                                          !.source_datastore =
                                              next_source_datastore(@, target_datastore.v),
                                          !.i = @ + 1,
                                          !.next_rando = @ + 1]
                  IN /\ fs' = [fs EXCEPT !.result_txt = Append(@, command), !.dirs = kept]
                     /\ mig' = IF delete_intermediate_error(removed) # None
                               THEN [exit(1) EXCEPT !.delete_failed = @ \/ ~removed]
                               ELSE IF mig.i = Len(mig.migrations)
                               THEN begin_flip(next, target_datastore.v)
                               ELSE next
    /\ UNCHANGED <<store_vars, server_vars>>

\* The fsync as it would be if its error were returned like the others.
fsync_result_fatal(ok) == IF ok THEN Ok("synced") ELSE Err("Fsync")

\* fsync(raw_dir.as_raw_fd()).unwrap_or_else(|e| warn!(..)): a failure is
\* logged and the flip goes on to return Ok.
fsync_result(ok) == IF ok THEN Ok("synced") ELSE Ok("warned")

\* flip_to_new_version: symlink(target, &temp_link) for the next link; the
\* call can fail (and does when the path exists), which ends the run.
FlipSymlink ==
    /\ mig.pc = "flip"
    /\ mig.flip_step \in {1, 3, 5, 7}
    /\ \E ok \in BOOLEAN :
          LET flip == flip_links(mig.migrate_to_version, mig.to_datastore)[(mig.flip_step + 1) \div 2]
          IN IF ~ok \/ mig.temp_link \in (DOMAIN fs.links) \cup (DOMAIN fs.dirs)
             THEN /\ mig' = fail("LinkCreate")
                  /\ fs' = fs
             ELSE /\ fs' = [fs EXCEPT !.links = Put(@, mig.temp_link, flip[2])]
                  /\ mig' = [mig EXCEPT !.flip_step = @ + 1]
    /\ UNCHANGED <<store_vars, server_vars>>

\* flip_to_new_version: fs::rename(&temp_link, link) swaps the link in,
\* replacing the link that is there; a failure of the call ends the run.
FlipRename ==
    /\ mig.pc = "flip"
    /\ mig.flip_step \in {2, 4, 6, 8}
    /\ \E ok \in BOOLEAN :
          LET flip == flip_links(mig.migrate_to_version, mig.to_datastore)[mig.flip_step \div 2]
          IN IF ~ok
             THEN /\ mig' = fail("LinkSwap")
                  /\ fs' = fs
             ELSE /\ fs' = [fs EXCEPT !.links =
                              Put(Remove(@, mig.temp_link), flip[1], fs.links[mig.temp_link])]
                  /\ mig' = [mig EXCEPT !.flip_step = @ + 1]
    /\ UNCHANGED <<store_vars, server_vars>>

\* flip_to_new_version: fsync of the directory, which can fail, then the
\* return to main.
FlipFsync ==
    /\ mig.pc = "flip"
    /\ mig.flip_step = 9
    /\ \E ok \in BOOLEAN :
          LET synced == fsync_result(ok)
          IN mig' = IF synced.ok
                    THEN [exit(0) EXCEPT !.fsync_failed = ~ok]
                    ELSE [fail(synced.v) EXCEPT !.fsync_failed = ~ok]
    /\ fs' = fs
    /\ UNCHANGED <<store_vars, server_vars>>

\* The process is killed, or the machine stops: it ends where it is.
Crash ==
    /\ mig.pc \in {"run", "perform_migrations", "run_migrations", "flip"}
    /\ mig' = [mig EXCEPT !.pc = "crashed", !.exit_code = 1]
    /\ fs' = fs
    /\ UNCHANGED <<store_vars, server_vars>>

NextMigrate ==
    \/ RemoveWeakSettings
    \/ PerformMigrations
    \/ RunMigration
    \/ FlipSymlink
    \/ FlipRename
    \/ FlipFsync
    \/ Crash

SpecMigrate == InitMigrate /\ [][NextMigrate]_vars

(***************************************************************************)
(* SpecRerun: the migrator is started again after it was stopped.          *)
(***************************************************************************)
\* main is entered again with the same command line, on the parent
\* directory as the stopped run left it; random ids are fresh.
Rerun ==
    /\ mig.pc = "crashed"
    /\ mig.runs < MaxRuns
    /\ mig' = [mig EXCEPT !.pc = "run", !.exit_code = -1, !.before = fs,
                          !.datastore = << >>, !.direction = "",
                          !.migrations = << >>, !.i = 0,
                          !.source_datastore = << >>, !.target_datastore = << >>,
                          !.intermediate_datastore = None, !.to_datastore = << >>,
                          !.temp_link = << >>, !.flip_step = 0,
                          !.error = "", !.fsync_failed = FALSE,
                          !.runs = @ + 1, !.crashed_at = mig.flip_step]
    /\ fs' = fs
    /\ UNCHANGED <<store_vars, server_vars>>

NextRerun ==
    \/ NextMigrate
    \/ Rerun

SpecRerun == InitMigrate /\ [][NextRerun]_vars

(***************************************************************************)
(* SpecPrune: copy_without_weak_settings from a source datastore (the      *)
(* store of this module) into a new, empty target datastore.  The pass     *)
(* reads each dataset through the DataStore contract, deserializes every   *)
(* value, drops the weak settings and all metadata, serializes what is     *)
(* left and writes it to the same dataset of the target.                   *)
(***************************************************************************)
\* The data keys and the serialized values of the source; CorruptValue is
\* text that is not JSON.
PruneKeys == {Settings_a, Os_x}

CorruptValue == "oops"

PruneValues == DataValues \cup {CorruptValue}

PruneMetaValues(metadata_key) ==
    IF metadata_key = "strength" THEN {"\"strong\"", "\"weak\""} ELSE {"\"svc\""}

\* JSON texts and the strings they hold.
JsonStrings ==
    { <<"\"hi\"", "hi">>, <<"\"yo\"", "yo">>, <<"\"strong\"", "strong">>,
      <<"\"weak\"", "weak">>, <<"\"bogus\"", "bogus">>, <<"\"svc\"", "svc">> }

\* Value::String
Value_String(str) == <<"String", str>>

\* deserialize_scalar::<Value>: serde_json::from_str.
deserialize_scalar(text) ==
    IF \E j \in JsonStrings : j[1] = text
    THEN Ok(Value_String((CHOOSE j \in JsonStrings : j[1] = text)[2]))
    ELSE Err("Deserialize")

\* serialize_scalar::<Value>: serde_json::to_string.
serialize_scalar(value) ==
    (CHOOSE j \in JsonStrings : j[2] = value[2])[1]

\* A datastore as a value: the four maps of MemoryDataStore.
DataStoreOf(p, l, m, pm) ==
    [pending |-> p, live |-> l, metadata |-> m, pending_metadata |-> pm]

\* The source datastore of the pass.
Source == DataStoreOf(pending, live, metadata, pending_metadata)

\* get_input_data: the dataset's data and metadata, by key name, with every
\* value deserialized; an error when a value does not deserialize.
get_input_data(committed) ==
    LET raw_data == get_prefix(EmptyPrefix, committed)
        raw_metadata == get_metadata_prefix(EmptyPrefix, committed, None)
    IN IF \E k \in DOMAIN raw_data : ~deserialize_scalar(raw_data[k]).ok
       THEN Err("Deserialize")
       ELSE IF \E dk \in DOMAIN raw_metadata : \E mk \in DOMAIN raw_metadata[dk] :
                  ~deserialize_scalar(raw_metadata[dk][mk]).ok
       THEN Err("Deserialize")
       ELSE Ok([data |-> [k \in DOMAIN raw_data |-> deserialize_scalar(raw_data[k]).v],
                metadata |-> [dk \in DOMAIN raw_metadata |->
                                [mk \in DOMAIN raw_metadata[dk] |->
                                    deserialize_scalar(raw_metadata[dk][mk]).v]]])

\* The keys whose metadata holds strength = "weak".
keys_to_remove(datastore) ==
    {key \in DOMAIN datastore.metadata :
        /\ "strength" \in DOMAIN datastore.metadata[key]
        /\ datastore.metadata[key]["strength"] = Value_String("weak")}

\* The pass as it would be if it took every key that has a strength, weak
\* or strong, for a weak setting.
remove_weak_setting_any_strength(datastore) ==
    LET removed == {key \in DOMAIN datastore.metadata :
                       "strength" \in DOMAIN datastore.metadata[key]}
    IN [data |-> [k \in (DOMAIN datastore.data) \ removed |-> datastore.data[k]],
        metadata |-> EmptyMap]

\* The pass as it would be without its last assignment: the weak keys lose
\* their strength and their value, all other metadata is kept.
remove_weak_setting_keeping_metadata(datastore) ==
    LET removed == keys_to_remove(datastore)
    IN [data |-> [k \in (DOMAIN datastore.data) \ removed |-> datastore.data[k]],
        metadata |-> [k \in DOMAIN datastore.metadata |->
                        IF k \in removed
                        THEN Remove(datastore.metadata[k], "strength")
                        ELSE datastore.metadata[k]]]

\* remove_weak_setting_from_datastore: the weak keys lose their value, and
\* datastore.metadata = HashMap::new() drops all metadata.
remove_weak_setting_from_datastore(datastore) ==
    LET removed == keys_to_remove(datastore)
    IN [data |-> [k \in (DOMAIN datastore.data) \ removed |-> datastore.data[k]],
        metadata |-> EmptyMap]

\* set_metadata for every (data key, metadata key) pair of a metadata map.
RECURSIVE set_all_metadata(_, _, _)
set_all_metadata(metadata_map, meta, pairs) ==
    IF pairs = {} THEN metadata_map
    ELSE LET pair == CHOOSE x \in pairs : TRUE
         IN set_all_metadata(
                set_metadata_raw(metadata_map, pair[2], pair[1],
                                 serialize_scalar(meta[pair[1]][pair[2]])),
                meta, pairs \ {pair})

\* set_output_data: set_keys of the serialized data into the dataset (which
\* dataset_mut creates in the pending map on the first set_key), then one
\* set_metadata per metadata entry.
set_output_data(datastore, input, committed) ==
    LET data == [k \in DOMAIN input.data |-> serialize_scalar(input.data[k])]
        pairs == {<<dk, mk>> \in (DOMAIN input.metadata) \X MetaKeys :
                     mk \in DOMAIN input.metadata[dk]}
        with_data ==
            IF data = EmptyMap THEN datastore
            ELSE IF committed = Live
            THEN [datastore EXCEPT !.live = set_keys(@, data)]
            ELSE LET with_entry == entry_or_default(datastore.pending, committed[2])
                 IN [datastore EXCEPT !.pending =
                        Put(with_entry, committed[2],
                            set_keys(with_entry[committed[2]], data))]
    IN IF committed = Live
       THEN [with_data EXCEPT !.metadata = set_all_metadata(@, input.metadata, pairs)]
       ELSE [with_data EXCEPT !.pending_metadata =
                                 set_all_metadata(@, input.metadata, pairs)]

\* The loop body as it would be if the weak settings were also removed
\* (unset_key) from the dataset that was read.
copy_dataset_pruning_source(source, target, committed) ==
    LET input == get_input_data(committed)
    IN IF ~input.ok THEN input
       ELSE LET output == remove_weak_setting_from_datastore(input.v)
                kept(ds) == [k \in (DOMAIN ds) \ keys_to_remove(input.v) |-> ds[k]]
            IN Ok([source |->
                      IF committed = Live
                      THEN [source EXCEPT !.live = kept(@)]
                      ELSE [source EXCEPT !.pending[committed[2]] = kept(@)],
                   target |-> set_output_data(target, output, committed)])

\* What the pass writes to the target's dataset for a dataset of the
\* source: the serialized data left after the removal, or the error.
pruned_data(committed) ==
    LET input == get_input_data(committed)
    IN IF ~input.ok THEN input
       ELSE LET output == remove_weak_setting_from_datastore(input.v)
            IN Ok([k \in DOMAIN output.data |-> serialize_scalar(output.data[k])])

\* One turn of the loop of copy_without_weak_settings: the two datastores
\* after it, or the error it returns.
copy_dataset(source, target, committed) ==
    LET input == get_input_data(committed)
    IN IF ~input.ok THEN input
       ELSE Ok([source |-> source,
                target |-> set_output_data(target,
                               remove_weak_setting_from_datastore(input.v), committed)])

\* Partial maps from keys to values.
PartialMaps(keys, values) == UNION {[ks -> values] : ks \in SUBSET keys}

\* The metadata maps of the source: for each data key, the metadata keys
\* it has a value for (never none).
PruneMetadataMaps ==
    {m \in PartialMaps(PruneKeys, PartialMaps(MetaKeys, {"\"strong\"", "\"weak\"", "\"svc\""})) :
        \A dk \in DOMAIN m :
            /\ DOMAIN m[dk] # {}
            /\ \A mk \in DOMAIN m[dk] : m[dk][mk] \in PruneMetaValues(mk)}

\* Number of values a map of maps holds.
Weight(m, inner_keys) ==
    Cardinality({p \in (DOMAIN m) \X inner_keys : p[2] \in DOMAIN m[p[1]]})

\* The pass is about to start on a source holding at most MaxEntries
\* values, which set_key, unset_key and set_metadata calls have built.
InitPrune ==
    /\ ServerInit
    /\ \E l \in PartialMaps(PruneKeys, PruneValues) :
          \E p \in PartialMaps(Txs, PartialMaps(PruneKeys, PruneValues)) :
             /\ Cardinality(DOMAIN l) + Weight(p, PruneKeys) <= MaxEntries
             /\ \E m \in PruneMetadataMaps :
                   /\ Cardinality(DOMAIN l) + Weight(p, PruneKeys) + Weight(m, MetaKeys) <= MaxEntries
                   /\ \E pm \in PruneMetadataMaps :
                         /\ Cardinality(DOMAIN l) + Weight(p, PruneKeys) + Weight(m, MetaKeys) + Weight(pm, MetaKeys)
                               <= MaxEntries
                         /\ live = l
                         /\ pending = p
                         /\ metadata = m
                         /\ pending_metadata = pm
    /\ last = Call("new", Live, << >>, "", "", Ok({}), NoCheck)
    /\ fs = [links |-> EmptyMap, dirs |-> EmptyMap, result_txt |-> << >>]
    /\ mig = [pc |-> "copy_without_weak_settings", committeds |-> {},
              target |-> DataStoreOf(EmptyMap, EmptyMap, EmptyMap, EmptyMap),
              source_before |-> Source, copied |-> {}, result |-> None, pass |-> 1]

\* copy_without_weak_settings before its loop: Live and every transaction
\* list_transactions returns.
ListCommitteds ==
    /\ mig.pc = "copy_without_weak_settings"
    /\ mig' = [mig EXCEPT !.pc = "loop",
                          !.committeds = {Live} \cup {Pending(tx) : tx \in list_transactions}]
    /\ UNCHANGED <<pending, live, metadata, pending_metadata, last>>
    /\ UNCHANGED <<server_vars, fs>>

\* One turn of the loop: Live first, the transactions in any order.  The
\* pass returns the first error, or Ok after the last dataset.
CopyDataset ==
    /\ mig.pc = "loop"
    /\ mig.committeds # {}
    /\ \E committed \in mig.committeds :
          /\ Live \in mig.committeds => committed = Live
          /\ LET copied == copy_dataset(Source, mig.target, committed)
                 after == IF copied.ok THEN copied.v.source ELSE Source
             IN /\ pending' = after.pending
                /\ live' = after.live
                /\ metadata' = after.metadata
                /\ pending_metadata' = after.pending_metadata
                /\ mig' = IF ~copied.ok
                          THEN [mig EXCEPT !.pc = "returned", !.result = Some(copied)]
                          ELSE [mig EXCEPT
                                  !.target = copied.v.target,
                                  !.committeds = @ \ {committed},
                                  !.copied = @ \cup {committed},
                                  !.pc = IF mig.committeds = {committed}
                                         THEN "returned" ELSE "loop",
                                  !.result = IF mig.committeds = {committed}
                                             THEN Some(Ok("copied")) ELSE None]
    /\ UNCHANGED <<last, server_vars, fs>>

NextPrune ==
    \/ ListCommitteds
    \/ CopyDataset

SpecPrune == InitPrune /\ [][NextPrune]_vars

(***************************************************************************)
(* SpecPruneTwice: the pass is made again, from the datastore the first    *)
(* pass has written into a new empty target (a later run of the migrator   *)
(* starts from the datastore an earlier run has left).                     *)
(***************************************************************************)
\* The first pass has returned Ok: its target becomes the source of a second
\* pass.
PruneAgain ==
    /\ mig.pc = "returned"
    /\ mig.result = Some(Ok("copied"))
    /\ mig.pass = 1
    /\ pending' = mig.target.pending
    /\ live' = mig.target.live
    /\ metadata' = mig.target.metadata
    /\ pending_metadata' = mig.target.pending_metadata
    /\ mig' = [pc |-> "copy_without_weak_settings", committeds |-> {},
               target |-> DataStoreOf(EmptyMap, EmptyMap, EmptyMap, EmptyMap),
               source_before |-> mig.target, copied |-> {}, result |-> None, pass |-> 2]
    /\ UNCHANGED <<last, server_vars, fs>>

NextPruneTwice ==
    \/ NextPrune
    \/ PruneAgain

SpecPruneTwice == InitPrune /\ [][NextPruneTwice]_vars

(***************************************************************************)
(* The settings-generator expansion of the controller (controller.rs,      *)
(* expand_setting_generator): one call on a worker thread, over the Live   *)
(* keys of the store.                                                      *)
(***************************************************************************)
\* Largest depth a generator is declared with.
MaxDepth == 2

\* Data keys of the expansion, by name: "s.a.g" and so on.
S_a_g == <<"s", ".", "a", ".", "g">>
S_c_g == <<"s", ".", "c", ".", "g">>
S_a_v == <<"s", ".", "a", ".", "v">>
S_a_m_x == <<"s", ".", "a", ".", "m", ".", "x">>
S_a_m_x_y == <<"s", ".", "a", ".", "m", ".", "x", ".", "y">>
S_ab_m_x == <<"s", ".", "a", "b", ".", "m", ".", "x">>
S_c_m_x == <<"s", ".", "c", ".", "m", ".", "x">>

\* The data keys a generator is attached to.
GeneratorKeys == {S_a_g, S_c_g}

\* The keys that may be populated in Live when the call is made.
PopulatedKeys == {S_a_g, S_a_v, S_a_m_x, S_a_m_x_y, S_ab_m_x, S_c_m_x}

\* The generators: command, strength and depth.
RawSettingsGenerators ==
    [command : {"gen1"}, strength : {Strong, Weak}, depth : 0 .. MaxDepth]

RECURSIVE split_segments(_, _)
\* The segments of what is left of a name, after the characters of
\* `current`: a dot ends a segment.
split_segments(name, current) ==
    IF name = << >> THEN <<current>>
    ELSE IF Head(name) = "."
         THEN <<current>> \o split_segments(Tail(name), << >>)
         ELSE split_segments(Tail(name), Append(current, Head(name)))

\* Key::segments: the dot-separated parts of the name.
segments(key) == split_segments(key, << >>)

RECURSIVE join_segments(_)
join_segments(segs) ==
    IF Len(segs) = 1 THEN segs[1]
    ELSE segs[1] \o <<".">> \o join_segments(Tail(segs))

\* Key::from_segments: the key named by the segments joined with dots; a
\* key needs a name.
from_segments(segs) ==
    IF segs = << >> THEN Err("InvalidKey") ELSE Ok(join_segments(segs))

\* SettingsGenerator::from(RawSettingsGenerator): the depth is dropped.
SettingsGenerator_from(value) ==
    [command |-> value.command, strength |-> value.strength]

\* The depth-zero test as it would be if no depth meant "this key".
applies_to_given_key_never(depth) == FALSE

\* depth == 0: the generator is for the given key itself.
applies_to_given_key(depth) == depth = 0

\* The child key a populated key gives at the target depth, if it is that
\* deep: its first final_segment_length segments, the last one replaced by
\* the last segment of the data key.
child_key_at_target_depth(child_key, final_segment_length, data_key_for_metadata) ==
    LET segs == segments(child_key)
    IN IF Len(segs) < final_segment_length THEN None
       ELSE Some(from_segments(
                Append(SubSeq(segs, 1, final_segment_length - 1), data_key_for_metadata)))

RECURSIVE insert_all(_, _, _)
\* result.insert(child_key, metadata_value) for every key of the set.
insert_all(result, keys, metadata_value) ==
    IF keys = {} THEN result
    ELSE LET k == CHOOSE x \in keys : TRUE
         IN insert_all(Put(result, k, metadata_value), keys \ {k}, metadata_value)

\* expand_setting_generator: Ok(result after the call) or the error; on an
\* error the result is as the caller passed it.
expand_setting_generator(data_key, raw_setting_generator, result) ==
    LET depth == raw_setting_generator.depth
        metadata_value == SettingsGenerator_from(raw_setting_generator)
        segs == segments(data_key)
        data_key_for_metadata == segs[Len(segs)]
        parent_key == from_segments(SubSeq(segs, 1, Len(segs) - 1))
        all_child_keys == list_populated_keys(parent_key.v, Live)
        final_segment_length == Len(segs) + depth
        children == {child_key_at_target_depth(c, final_segment_length, data_key_for_metadata) :
                        c \in all_child_keys} \ {None}
    IN IF applies_to_given_key(depth)
       THEN Ok(Put(result, data_key, metadata_value))
       ELSE IF ~parent_key.ok THEN Err("NewKey")
       ELSE IF \E c \in children : ~c[2].ok THEN Err("NewKey")
       ELSE Ok(insert_all(result, {c[2].v : c \in children}, metadata_value))

\* The results a caller may pass: empty, or holding an entry of an earlier
\* generator.
EarlierResults ==
    {EmptyMap}
    \cup {Put(EmptyMap, k, [command |-> "gen0", strength |-> Strong]) :
             k \in {S_c_g, <<"s", ".", "a", ".", "m", ".", "g">>}}

\* A worker is about to expand one generator; Live holds some of the keys.
InitExpand ==
    /\ pending = EmptyMap
    /\ metadata = EmptyMap
    /\ pending_metadata = EmptyMap
    /\ \E populated \in SUBSET PopulatedKeys :
          live = [k \in populated |-> "\"hi\""]
    /\ last = Call("new", Live, << >>, "", "", Ok({}), NoCheck)
    /\ ds_lock = [writer |-> NoThread, readers |-> {"w1"}]
    /\ \E data_key \in GeneratorKeys, raw \in RawSettingsGenerators, result \in EarlierResults :
          handler = [t \in Workers |->
                       IF t = "w1"
                       THEN [pc |-> "expand_setting_generator", data_key |-> data_key,
                             raw_setting_generator |-> raw, result_before |-> result,
                             result |-> result, response |-> None]
                       ELSE IdleHandler]
    /\ MigratorInit

\* The call.
ExpandSettingGenerator ==
    /\ handler["w1"].pc = "expand_setting_generator"
    /\ LET h == handler["w1"]
           expanded == expand_setting_generator(h.data_key, h.raw_setting_generator, h.result)
       IN handler' = [handler EXCEPT
                        !["w1"].pc = "returned",
                        !["w1"].result = IF expanded.ok THEN expanded.v ELSE h.result,
                        !["w1"].response = Some(IF expanded.ok THEN Ok("expanded") ELSE expanded)]
    /\ UNCHANGED <<store_vars, ds_lock, migrator_vars>>

NextExpand == ExpandSettingGenerator

SpecExpand == InitExpand /\ [][NextExpand]_vars

(***************************************************************************)
(* Vocabulary of the properties.                                           *)
(***************************************************************************)
\* The data keys of the universe whose name lies under "settings.".
SettingsKeys == {Settings_a, Settings_b}

\* The step just taken is the call op on the dataset committed.
Called(op, committed) == last'.op = op /\ last'.committed = committed

\* The four maps of the store are what they were before the step.
StoreUnchanged ==
    /\ live' = live
    /\ metadata' = metadata
    /\ pending' = pending
    /\ pending_metadata' = pending_metadata

\* Transaction tx carries strength=weak for key, which is populated in Live
\* with Live strength strong or absent.
WeakensPopulated(key, tx) ==
    /\ get_metadata("strength", key, Pending(tx)) = Some("\"weak\"")
    /\ get_key(key, Live) # None
    /\ get_metadata("strength", key, Live) \in {None, Some("\"strong\"")}

\* Transaction tx carries strength=strong for key, whose Live strength is weak.
Strengthens(key, tx) ==
    /\ get_metadata("strength", key, Pending(tx)) = Some("\"strong\"")
    /\ get_metadata("strength", key, Live) = Some("\"weak\"")

\* The pending strength of key differs from its Live strength, an absent
\* Live strength counting as strong.
StrengthDiffers(key, tx) ==
    LET p == get_metadata("strength", key, Pending(tx))
        l == get_metadata("strength", key, Live)
    IN \/ (p = Some("\"weak\"") /\ l \in {None, Some("\"strong\"")})
       \/ (p = Some("\"strong\"") /\ l = Some("\"weak\""))

\* No strength value the check of tx can read fails to parse.
AllStrengthsParse(tx) ==
    \A key \in SettingsKeys :
        get_metadata("strength", key, Pending(tx)) # None
        => /\ get_metadata("strength", key, Pending(tx))
                  \in {Some("\"strong\""), Some("\"weak\"")}
           /\ get_metadata("strength", key, Live)
                  \in {None, Some("\"strong\""), Some("\"weak\"")}

C2_StrengthenedInLive ==
    [][\A tx \in Txs : \A key \in SettingsKeys :
          (/\ Called("commit_transaction", Pending(tx))
           /\ Strengthens(key, tx)
           /\ last'.result.ok)
          => (get_metadata("strength", key, Live))' = Some("\"strong\"")]_vars

(***************************************************************************)
(* C3                                                                      *)
(***************************************************************************)
\* C3: after an approved commit_transaction(tx) of a transaction with no
\* pending metadata, every settings.* key that had value v in Pending{tx} has
\* value v in Live, Pending{tx} holds no key, and list_transactions does not
\* return tx.
C3_CommitPromotes ==
    [][\A tx \in Txs :
          (/\ Called("commit_transaction", Pending(tx))
           /\ last'.result.ok
           /\ DOMAIN get_metadata_prefix(EmptyPrefix, Pending(tx), None) = {})
          => /\ \A key \in SettingsKeys :
                   get_key(key, Pending(tx)) # None
                   => (get_key(key, Live))' = get_key(key, Pending(tx))
             /\ (list_populated_keys(EmptyPrefix, Pending(tx)))' = {}
             /\ \A key \in DataKeys : (get_key(key, Pending(tx)))' = None
             /\ tx \notin list_transactions']_vars

\* A commit that promoted a pending value over a different Live value.
C3_Witness ==
    /\ last.op = "commit_transaction"
    /\ last.result.ok
    /\ last.result.v = {Settings_a}
    /\ DOMAIN pending_metadata = {}
    /\ get_key(Settings_a, Live) = Some("\"yo\"")
    /\ get_key(Settings_b, Live) = Some("\"hi\"")
    /\ last.committed[2] \notin list_transactions

(***************************************************************************)
(* C4                                                                      *)
(***************************************************************************)
\* C4: after set_key(k, v, Pending{t}), get_key(k, Pending{t}) returns v, and
\* get_key of every key under Live and under every other transaction returns
\* what it returned before; an unset_key under Pending{t} leaves the other
\* datasets alone too.  This holds from every state that set_key, unset_key,
\* commit and delete calls on all datasets can produce.
C4_PendingDataIsolation ==
    [][\A t \in Txs : \A k \in DataKeys :
          ((Called("set_key", Pending(t)) \/ Called("unset_key", Pending(t)))
              /\ last'.key = k)
          => /\ \A v \in DataValues :
                   (last'.op = "set_key" /\ last'.value = v)
                   => (get_key(k, Pending(t)))' = Some(v)
             /\ last'.op = "unset_key" => (get_key(k, Pending(t)))' = None
             /\ \A c2 \in Committeds \ {Pending(t)} : \A k2 \in DataKeys :
                   (get_key(k2, c2))' = get_key(k2, c2)]_vars

\* A write under t1 of a key that Live does not hold and t2 holds with
\* another value.
C4_Witness ==
    /\ last.op = "set_key"
    /\ last.committed = Pending("t1")
    /\ get_key(last.key, Pending("t1")) = Some("\"hi\"")
    /\ get_key(last.key, Live) = None
    /\ get_key(last.key, Pending("t2")) = Some("\"yo\"")

(***************************************************************************)
(* C5                                                                      *)
(***************************************************************************)
\* C5: metadata written with set_metadata under Pending{t1} is not returned
\* by get_metadata or get_metadata_prefix under any other dataset: what they
\* return there is what they returned before the write.
C5_PendingMetadataIsolation ==
    [][\A t1 \in Txs :
          Called("set_metadata", Pending(t1))
          => \A c2 \in Committeds \ {Pending(t1)} :
                /\ \A mk \in MetaKeys : \A dk \in DataKeys :
                      (get_metadata(mk, dk, c2))' = get_metadata(mk, dk, c2)
                /\ (get_metadata_prefix(EmptyPrefix, c2, None))'
                      = get_metadata_prefix(EmptyPrefix, c2, None)]_vars

(***************************************************************************)
(* C6                                                                      *)
(***************************************************************************)
\* C6: when no strength value fails to parse the shipped check returns no
\* error, and whenever it returns no error it returns Reject if and only if
\* some settings.* key has pending strength weak, Live strength strong or
\* absent and a populated Live value, and Approve otherwise, in whatever
\* order the pending metadata entries are visited.
C6_RejectIffWeakensPopulated ==
    [][\A tx \in Txs :
          Called("commit_transaction", Pending(tx))
          => /\ AllStrengthsParse(tx) => last'.check.ok
             /\ last'.check.ok
                  => /\ last'.check.v[1] \in {"Reject", "Approve"}
                     /\ last'.check.v[1] = "Reject"
                           <=> \E key \in SettingsKeys : WeakensPopulated(key, tx)]_vars

\* A rejection by a check that had the strength entries of two settings keys
\* to visit, one of them not weakening anything.
C6_Witness ==
    /\ last.op = "commit_transaction"
    /\ last.check.ok /\ last.check.v[1] = "Reject"
    /\ \A key \in SettingsKeys :
          get_metadata("strength", key, last.committed) # None
    /\ \E key \in SettingsKeys : ~WeakensPopulated(key, last.committed[2])

(***************************************************************************)
(* C7                                                                      *)
(***************************************************************************)
\* C7: on Approve the approved metadata list holds exactly one triple
\* (strength, key, pending strength) for every settings.* key whose pending
\* strength differs from its Live strength (absent counting as strong), and
\* nothing else: no entry for a key whose strengths are equal, none for
\* another metadata key, none for a key outside settings.
C7_ApprovedMetadataExact ==
    [][\A tx \in Txs :
          (/\ Called("commit_transaction", Pending(tx))
           /\ last'.check.ok
           /\ last'.check.v[1] = "Approve")
          => LET md == last'.check.v[2].metadata
             IN /\ \A i \in DOMAIN md :
                      /\ md[i][1] = "strength"
                      /\ md[i][2] \in SettingsKeys
                      /\ StrengthDiffers(md[i][2], tx)
                      /\ Some(md[i][3]) = get_metadata("strength", md[i][2], Pending(tx))
                /\ \A i, j \in DOMAIN md : md[i][2] = md[j][2] => i = j
                /\ \A key \in SettingsKeys :
                      StrengthDiffers(key, tx) => \E i \in DOMAIN md : md[i][2] = key]_vars

\* An approval whose metadata list is the promotion to strong of one key,
\* while another settings key had equal strengths and the first key also
\* carried another metadata key.
C7_Witness ==
    /\ last.op = "commit_transaction"
    /\ last.check.ok /\ last.check.v[1] = "Approve"
    /\ last.check.v[2].metadata = << <<"strength", Settings_a, "\"strong\"">> >>
    /\ get_metadata("strength", Settings_b, last.committed) = Some("\"strong\"")

(***************************************************************************)
(* C8                                                                      *)
(***************************************************************************)
\* C8: on Approve, ApprovedWrite.settings is exactly the (key, value) pairs
\* populated under settings. in Pending{tx}; commit_transaction returns
\* exactly the keys it wrote into Live, each with its pending value, and
\* leaves every other Live key alone; when nothing is pending under
\* settings. it returns the empty set without error and Live is unchanged.
C8_SettingsAndReturnedKeys ==
    [][\A tx \in Txs :
          (Called("commit_transaction", Pending(tx)) /\ last'.result.ok)
          => LET settings == last'.check.v[2].settings
                 pending_settings ==
                     {key \in SettingsKeys : get_key(key, Pending(tx)) # None}
             IN /\ last'.check.v[1] = "Approve"
                /\ DOMAIN settings = pending_settings
                /\ \A key \in pending_settings :
                      Some(settings[key]) = get_key(key, Pending(tx))
                /\ last'.result.v = pending_settings
                /\ \A key \in pending_settings :
                      (get_key(key, Live))' = get_key(key, Pending(tx))
                /\ \A key \in DataKeys \ pending_settings :
                      (get_key(key, Live))' = get_key(key, Live)
                /\ pending_settings = {}
                      => (last'.result.v = {} /\ live' = live /\ metadata' = metadata)]_vars

\* A commit that returned one settings key, now in Live with the pending
\* value, of a transaction that is gone, while a key outside settings. is
\* not in Live.
C8_Witness ==
    /\ last.op = "commit_transaction"
    /\ last.result.ok
    /\ last.result.v = {Settings_b}
    /\ get_key(Settings_b, Live) = Some("\"yo\"")
    /\ get_key(Os_x, Live) = None
    /\ get_key(Settings_a, Live) = Some("\"hi\"")

(***************************************************************************)
(* C9                                                                      *)
(***************************************************************************)
\* C9: if the constraint check returns an error, commit_transaction returns
\* an error and writes nothing: Live data, Live metadata and the pending
\* transaction are what they were before the call; an unparsable pending
\* strength of a settings key is such an error unless the check rejects
\* first.
C9_CheckErrorNoWrite ==
    [][\A tx \in Txs :
          Called("commit_transaction", Pending(tx))
          => /\ ~last'.check.ok => (~last'.result.ok /\ StoreUnchanged)
             /\ (\E key \in SettingsKeys :
                    get_metadata("strength", key, Pending(tx)) = Some("\"bogus\""))
                  => (~last'.result.ok /\ StoreUnchanged)]_vars

\* A commit that failed on an unparsable strength, of a transaction that
\* still holds its pending data.
C9_Witness ==
    /\ last.op = "commit_transaction"
    /\ ~last.check.ok
    /\ ~last.result.ok
    /\ \E key \in SettingsKeys :
          get_metadata("strength", key, last.committed) = Some("\"bogus\"")
    /\ list_populated_keys(SettingsPrefix, last.committed) # {}

(***************************************************************************)
(* C10                                                                     *)
(***************************************************************************)
\* C10: after a successful commit_transaction(tx) or a delete_transaction(tx)
\* nothing is readable under Pending{tx}: get_key and list_populated_keys
\* return no data key, get_metadata and get_metadata_prefix no metadata.
C10_TransactionDiscarded ==
    [][\A tx \in Txs :
          (\/ Called("commit_transaction", Pending(tx)) /\ last'.result.ok
           \/ Called("delete_transaction", Pending(tx)))
          => /\ (list_populated_keys(EmptyPrefix, Pending(tx)))' = {}
             /\ \A key \in DataKeys : (get_key(key, Pending(tx)))' = None
             /\ \A mk \in MetaKeys : \A dk \in DataKeys :
                   (get_metadata(mk, dk, Pending(tx)))' = None
             /\ (DOMAIN get_metadata_prefix(EmptyPrefix, Pending(tx), None))' = {}]_vars

(***************************************************************************)
(* C11                                                                     *)
(***************************************************************************)
\* C11: delete_transaction on a transaction name that does not exist returns
\* Ok with an empty key set and leaves Live, every pending transaction and
\* list_transactions unchanged.
C11_DeleteMissingIsNoOp ==
    [][\A tx \in Txs :
          (Called("delete_transaction", Pending(tx)) /\ tx \notin list_transactions)
          => /\ last'.result.ok /\ last'.result.v = {}
             /\ live' = live /\ metadata' = metadata
             /\ pending' = pending
             /\ list_transactions' = list_transactions]_vars

\* A delete that returned the empty set while another transaction and Live
\* hold data (a transaction that exists under Spec always holds a key, so
\* the one deleted did not exist).
C11_Witness ==
    /\ last.op = "delete_transaction"
    /\ last.committed = Pending("t2")
    /\ last.result = Ok({})
    /\ list_transactions = {"t1"}
    /\ get_key(Settings_a, Pending("t1")) # None
    /\ get_key(Settings_a, Live) # None

(***************************************************************************)
(* C12                                                                     *)
(***************************************************************************)
\* C12: delete_transaction(tx) on an existing transaction returns exactly
\* the set of keys that were pending in tx, removes only that transaction,
\* and leaves Live data and every other pending transaction's keys and
\* values unchanged.
C12_DeleteExistingFrame ==
    [][\A tx \in Txs :
          (Called("delete_transaction", Pending(tx)) /\ tx \in list_transactions)
          => /\ last'.result = Ok(list_populated_keys(EmptyPrefix, Pending(tx)))
             /\ list_transactions' = list_transactions \ {tx}
             /\ live' = live
             /\ \A t2 \in Txs \ {tx} : \A key \in DataKeys :
                   (get_key(key, Pending(t2)))' = get_key(key, Pending(t2))]_vars

\* A delete of t1 that returned its one key, with t2 and Live still holding
\* their own value of that key.
C12_Witness ==
    /\ last.op = "delete_transaction"
    /\ last.committed = Pending("t1")
    /\ last.result = Ok({Settings_a})
    /\ list_transactions = {"t2"}
    /\ get_key(Settings_a, Pending("t2")) = Some("\"yo\"")
    /\ get_key(Settings_a, Live) = Some("\"hi\"")

(***************************************************************************)
(* C13                                                                     *)
(***************************************************************************)
\* A worker is inside a handler, holding a guard of the datastore lock.
InHandler(t) == handler[t].pc # "idle"

\* Worker u is inside a commit that has written some approved key into Live
\* and has not yet finished: approved keys are still unwritten, or all are
\* written and the pending transaction has not been removed yet.
HalfCommitted(u) ==
    /\ handler[u].pc \in {"commit_write", "commit_remove"}
    /\ handler[u].to_write # handler[u].approved

\* C13: a commit runs entirely under the datastore write lock: while a
\* worker's commit has written only some of its approved keys into Live, or
\* has written Live and not yet deleted the pending transaction, no other
\* worker is inside a handler (read or write), so none observes that state.
C13_CommitIsOneCriticalSection ==
    \A t \in Workers : \A u \in Workers \ {t} :
        HalfCommitted(u) => ~InHandler(t)

\* The commit of w1 has written one of its two approved keys, after w2 read
\* the Live settings when they were still empty and returned.
C13_Witness ==
    /\ HalfCommitted("w1")
    /\ DOMAIN handler["w1"].approved = {Settings_a, Settings_b}
    /\ Cardinality(DOMAIN handler["w1"].to_write) = 1
    /\ handler["w2"].pc = "idle"
    /\ handler["w2"].request = "get_settings"
    /\ handler["w2"].response = Some(Ok(EmptyMap))

(***************************************************************************)
(* C14                                                                     *)
(***************************************************************************)
\* The run has ended on the failure of the migration the input makes fail.
MigrationFailed ==
    /\ mig.pc = "exited"
    /\ mig.fail_at > 0
    /\ mig.i = mig.fail_at

\* C14: if migration k of a chain of n fails (non-zero exit, or its target
\* cannot be fetched, decompressed or spawned), migrations k+1..n are never
\* executed, no version link is created or changed, current still resolves
\* to the original version's datastore, and the run reports an error.
C14_FailedMigrationAbortsChain ==
    /\ (mig.pc # "none" /\ mig.fail_at > 0 /\ mig.migrations # << >>)
          => /\ Len(fs.result_txt) <= mig.fail_at
             /\ \A j \in DOMAIN fs.result_txt : fs.result_txt[j][1] = mig.migrations[j]
    /\ MigrationFailed
          => /\ mig.exit_code = 1
             /\ fs.links = mig.before.links
             /\ canonicalize(fs, CurrentLink) = Some(mig.datastore_path)

\* A chain of three whose second migration failed after the first ran.
C14_Witness ==
    /\ MigrationFailed
    /\ mig.fail_at = 2
    /\ Len(mig.migrations) = 3
    /\ Len(fs.result_txt) = 1
    /\ mig.fail_kind = "spawn_error"

(***************************************************************************)
(* C15                                                                     *)
(***************************************************************************)
\* The directories of the parent directory named with a version's prefix.
DirectoriesOf(version) == {d \in DOMAIN fs.dirs : has_version_prefix(d, version)}

\* The contents the pruned copy has after the first j migrations of the list.
OutputOf(j) ==
    <<"data", "pruned">> \o SubSeq(mig.migrations, 1, j)

\* C15: after a run over a chain of 3 migrations whose last migration exits
\* non-zero, exactly two directories named with the target-version prefix
\* remain in the parent directory: the output of migration 2 and the output
\* of the failing migration 3; the output of migration 1 has been deleted.
C15_TwoDirectoriesLeftBehind ==
    (/\ MigrationFailed
     /\ Len(mig.migrations) = 3
     /\ mig.fail_at = 3
     /\ mig.fail_kind = "exit_nonzero_with_target"
     /\ ~mig.delete_failed
     /\ DOMAIN mig.before.dirs = {mig.datastore_path})
    => LET left == DirectoriesOf(mig.migrate_to_version)
       IN /\ Cardinality(left) = 2
          /\ {fs.dirs[d] : d \in left} = {OutputOf(2), OutputOf(3) \o <<"incomplete">>}
          /\ \A d \in DOMAIN fs.dirs : fs.dirs[d] # OutputOf(1)

(***************************************************************************)
(* C16                                                                     *)
(***************************************************************************)
\* C16: after a successful run from version A to version B with migrations
\* [m1, m2, m3], current resolves through vMAJOR -> vMAJOR.MINOR ->
\* vMAJOR.MINOR.PATCH of B to the directory produced by m3, the outputs of
\* m1 and m2 no longer exist, and the parent directory holds exactly one
\* directory with the v<B>_ prefix and one with the v<A>_ prefix.
C16_SuccessfulRunLayout ==
    (/\ mig.pc = "exited" /\ mig.exit_code = 0
     /\ Len(mig.migrations) = 3
     /\ ~mig.delete_failed
     /\ DOMAIN mig.before.dirs = {mig.datastore_path})
    => LET to == mig.migrate_to_version
       IN /\ fs.links[CurrentLink] = major_version_link(to)
          /\ fs.links[major_version_link(to)] = minor_version_link(to)
          /\ fs.links[minor_version_link(to)] = patch_version_link(to)
          /\ fs.links[patch_version_link(to)] \in DOMAIN fs.dirs
          /\ fs.dirs[fs.links[patch_version_link(to)]] = OutputOf(3)
          /\ \A d \in DOMAIN fs.dirs : fs.dirs[d] \notin {OutputOf(1), OutputOf(2)}
          /\ Cardinality(DirectoriesOf(to)) = 1
          /\ Cardinality({d \in DOMAIN fs.dirs :
                            has_version_prefix(d, parse_version(
                                SubSeq(mig.datastore_path, 1, 4)).v)}) = 1

(***************************************************************************)
(* C17                                                                     *)
(***************************************************************************)
\* The version of the datastore the run started from.
FromVersion == parse_version(SubSeq(mig.datastore_path, 1, 4)).v

\* The migrations result.txt records, in the order they ran.
Executed == [j \in DOMAIN fs.result_txt |-> fs.result_txt[j][1]]

\* C17: migrations are executed exactly once each in the order the resolved
\* list gives them, never re-sorted by name: a forward run follows the
\* manifest order with the flag --forward, a backward run executes the same
\* manifest entries in reverse order with the flag --backward.
C17_ExecutedInListOrder ==
    (mig.pc # "none" /\ mig.migrations # << >>)
    => /\ Len(fs.result_txt) <= Len(mig.migrations)
       /\ Executed = SubSeq(mig.migrations, 1, Len(fs.result_txt))
       /\ \A j \in DOMAIN fs.result_txt : fs.result_txt[j][2] = mig.direction
       /\ version_less(FromVersion, mig.migrate_to_version)
             => mig.migrations = mig.manifest /\ mig.direction = "--forward"
       /\ version_less(mig.migrate_to_version, FromVersion)
             => /\ mig.direction = "--backward"
                /\ Len(mig.migrations) = Len(mig.manifest)
                /\ \A j \in DOMAIN mig.manifest :
                      mig.migrations[j] = mig.manifest[Len(mig.manifest) + 1 - j]
       /\ (mig.pc = "exited" /\ mig.exit_code = 0) => Executed = mig.migrations

\* A backward run over the three-entry manifest has run to its end.
C17_Witness ==
    /\ mig.pc = "exited" /\ mig.exit_code = 0
    /\ mig.manifest = <<"b-first-migration", "a-second-migration", "third-migration">>
    /\ Executed = <<"third-migration", "a-second-migration", "b-first-migration">>
    /\ \A j \in DOMAIN fs.result_txt : fs.result_txt[j][2] = "--backward"

C19_EqualVersionsIsNoOp ==
    (mig.pc = "exited" /\ FromVersion = mig.migrate_to_version)
    => /\ mig.exit_code = 0
       /\ fs.result_txt = << >>
       /\ fs.links = mig.before.links
       /\ fs.dirs = mig.before.dirs

(***************************************************************************)
(* C20                                                                     *)
(***************************************************************************)
\* The contents of a directory are those of a datastore written to its end.
CompletelyWritten(contents) ==
    contents # << >> /\ contents[Len(contents)] # "incomplete"

\* C20: the version chain is never torn: at every point of the run, and so
\* after each symlink creation and each rename of flip_to_new_version and
\* after a crash there, current resolves through links that all exist to an
\* existing, completely written datastore directory, which is the directory
\* it resolved to before the flip or the new to_datastore.
C20_VersionChainNeverTorn ==
    mig.pc # "none"
    => LET reached == canonicalize(fs, CurrentLink)
       IN /\ reached # None
          /\ reached \in {canonicalize(mig.before, CurrentLink)}
                            \cup (IF mig.flip_step > 0 THEN {Some(mig.to_datastore)} ELSE {})
          /\ CompletelyWritten(fs.dirs[reached[2]])

\* The process stopped between two flips of a run within one minor version:
\* current has not been swapped and already resolves to the new datastore.
C20_Witness ==
    /\ mig.pc = "crashed"
    /\ mig.flip_step \in 3..8
    /\ mig.migrations # << >>
    /\ fs.links[CurrentLink] = mig.before.links[CurrentLink]
    /\ canonicalize(fs, CurrentLink) = Some(mig.to_datastore)
    /\ canonicalize(mig.before, CurrentLink) = Some(mig.datastore_path)

(***************************************************************************)
(* C21                                                                     *)
(***************************************************************************)
\* The links of the target version in the order patch, minor, major,
\* current, and what each is to point at.
LinkOrder ==
    <<patch_version_link(mig.migrate_to_version),
      minor_version_link(mig.migrate_to_version),
      major_version_link(mig.migrate_to_version),
      CurrentLink>>

LinkTargets ==
    <<mig.to_datastore,
      patch_version_link(mig.migrate_to_version),
      minor_version_link(mig.migrate_to_version),
      major_version_link(mig.migrate_to_version)>>

\* C21: flip_to_new_version repoints the links in the strict order patch,
\* minor, major, current, each by creating a temporary link and renaming it
\* over the real path; a link is renamed into place only after what it
\* points to exists, and the fsync that ends the flip comes only after all
\* four renames.
C21_FlipOrder ==
    [][(mig.pc = "flip" /\ mig'.pc # "crashed" /\ mig'.error = "")
       => LET k == (mig.flip_step + 1) \div 2
          IN /\ (mig.flip_step \in {1, 3, 5, 7} /\ mig'.pc = "flip")
                   => /\ mig.temp_link \notin DOMAIN fs.links
                      /\ fs'.links = Put(fs.links, mig.temp_link, LinkTargets[k])
             /\ mig.flip_step \in {2, 4, 6, 8}
                   => /\ fs.links[mig.temp_link] = LinkTargets[k]
                      /\ LinkTargets[k] \in (DOMAIN fs.links) \cup (DOMAIN fs.dirs)
                      /\ fs'.links = Put(Remove(fs.links, mig.temp_link),
                                         LinkOrder[k], LinkTargets[k])
                      /\ \A j \in (k + 1)..4 :
                            /\ LinkOrder[j] \in DOMAIN fs'.links
                                  <=> LinkOrder[j] \in DOMAIN mig.before.links
                            /\ LinkOrder[j] \in DOMAIN fs'.links
                                  => fs'.links[LinkOrder[j]] = mig.before.links[LinkOrder[j]]
             /\ (mig'.pc = "exited" /\ mig'.exit_code = 0)
                   => /\ mig.flip_step = 9
                      /\ fs' = fs
                      /\ \A j \in 1..4 : fs.links[LinkOrder[j]] = LinkTargets[j]]_vars

\* Half-way through a flip to another major version: the patch and minor
\* links are in place, the major link does not exist yet and current still
\* leads to the old version.
C21_Witness ==
    /\ mig.pc = "flip"
    /\ mig.flip_step = 5
    /\ fs.links[patch_version_link(mig.migrate_to_version)] = mig.to_datastore
    /\ fs.links[minor_version_link(mig.migrate_to_version)] =
          patch_version_link(mig.migrate_to_version)
    /\ major_version_link(mig.migrate_to_version) \notin DOMAIN fs.links
    /\ fs.links[CurrentLink] = mig.before.links[CurrentLink]

(***************************************************************************)
(* C22                                                                     *)
(***************************************************************************)
\* A symlink or a rename of the flip has failed.
LinkStepFailed == mig.pc # "none" /\ mig.error \in {"LinkCreate", "LinkSwap"}

\* The fsync of the flip has failed.
FsyncFailed == mig.pc # "none" /\ mig.fsync_failed

\* C22: a failure of any step of the symlink flip (creating a temporary
\* symlink, renaming it into place, or fsyncing the parent directory) is
\* fatal for the run: the process exits non-zero and nothing is retried.
C22_FlipFailureIsFatal ==
    /\ []((LinkStepFailed \/ FsyncFailed) => (mig.pc = "exited" /\ mig.exit_code = 1))
    /\ [][~(LinkStepFailed \/ FsyncFailed)]_vars

\* C22 as the code has it: a failed symlink or rename ends the run with a
\* non-zero exit and is not retried; a failed fsync is only logged, and the
\* run ends with success and all four links in place.
C22_LinkFailureIsFatalFsyncIsNot ==
    /\ [](LinkStepFailed => (mig.pc = "exited" /\ mig.exit_code = 1))
    /\ [](FsyncFailed
            => /\ mig.pc = "exited" /\ mig.exit_code = 0
               /\ \A j \in 1..4 : fs.links[LinkOrder[j]] = LinkTargets[j])
    /\ [][~(LinkStepFailed \/ FsyncFailed)]_vars

\* The fsync after the four renames of a run with migrations has failed.
C22_Witness ==
    /\ FsyncFailed
    /\ mig.pc = "exited"
    /\ mig.exit_code = 0
    /\ mig.migrations # << >>
    /\ canonicalize(fs, CurrentLink) = Some(mig.to_datastore)

(***************************************************************************)
(* C23                                                                     *)
(***************************************************************************)
\* C23: re-runs after a crash are idempotent: if the process is stopped
\* between any two of the four renames of flip_to_new_version and the
\* migrator is run again with the same target version, its migrations and
\* system calls succeeding, the run does not fail because links of the
\* target version exist, and it ends with current resolving through
\* vMAJOR -> vMAJOR.MINOR -> vMAJOR.MINOR.PATCH of the target to a complete
\* datastore directory.
C23_RerunAfterCrashInFlip ==
    (/\ mig.pc = "exited"
     /\ mig.runs > 1
     /\ mig.crashed_at \in 3..8
     /\ mig.fail_at = 0
     /\ mig.error = "")
    => LET to == mig.migrate_to_version
       IN /\ mig.exit_code = 0
          /\ fs.links[CurrentLink] = major_version_link(to)
          /\ fs.links[major_version_link(to)] = minor_version_link(to)
          /\ fs.links[minor_version_link(to)] = patch_version_link(to)
          /\ fs.links[patch_version_link(to)] \in DOMAIN fs.dirs
          /\ CompletelyWritten(fs.dirs[fs.links[patch_version_link(to)]])

\* A run stopped with only the patch link of the target in place, and the
\* run after it has migrated again and flipped all four links.
C23_Witness ==
    /\ mig.pc = "exited" /\ mig.exit_code = 0
    /\ mig.runs = 2
    /\ mig.crashed_at = 3
    /\ mig.flip_step = 9
    /\ Len(mig.migrations) = 2
    /\ patch_version_link(mig.migrate_to_version) \in DOMAIN mig.before.links
    /\ canonicalize(fs, CurrentLink) = Some(mig.to_datastore)

(***************************************************************************)
(* C24                                                                     *)
(***************************************************************************)
\* Reads of the target datastore of the pruning pass.
TargetDataset(committed) ==
    IF committed = Live THEN mig.target.live
    ELSE IF committed[2] \in DOMAIN mig.target.pending
    THEN mig.target.pending[committed[2]]
    ELSE EmptyMap

TargetGetKey(key, committed) ==
    IF key \in DOMAIN TargetDataset(committed)
    THEN Some(TargetDataset(committed)[key]) ELSE None

TargetGetMetadata(metadata_key, data_key, committed) ==
    LET m == IF committed = Live THEN mig.target.metadata
             ELSE mig.target.pending_metadata
    IN IF data_key \in DOMAIN m /\ metadata_key \in DOMAIN m[data_key]
       THEN Some(m[data_key][metadata_key]) ELSE None

\* The pass has returned Ok.
PruneSucceeded ==
    mig.pc = "returned" /\ mig.result = Some(Ok("copied"))

\* C24: weak-setting pruning removes exactly the weak values: in the target
\* every data key whose source metadata has strength = "weak" is
\* unpopulated, and every other populated source key (strength strong, or
\* no strength metadata) is populated with exactly the same serialized
\* value as in the source.
C24_OnlyWeakValuesRemoved ==
    mig.pc \in {"loop", "returned"}
    => \A committed \in mig.copied : \A key \in PruneKeys :
          IF get_metadata("strength", key, committed) = Some("\"weak\"")
          THEN TargetGetKey(key, committed) = None
          ELSE TargetGetKey(key, committed) = get_key(key, committed)

\* Live held a weak setting and a strong one, both populated: the copy
\* holds the strong one only.
C24_Witness ==
    /\ PruneSucceeded
    /\ get_key(Settings_a, Live) = Some("\"hi\"")
    /\ get_metadata("strength", Settings_a, Live) = Some("\"weak\"")
    /\ get_key(Os_x, Live) = Some("\"yo\"")
    /\ TargetGetKey(Settings_a, Live) = None
    /\ TargetGetKey(Os_x, Live) = Some("\"yo\"")

(***************************************************************************)
(* C25                                                                     *)
(***************************************************************************)
\* C25: after weak-setting pruning the target datastore holds no metadata
\* at all: for every data key and every metadata key, in Live and in every
\* pending transaction, get_metadata on the target returns None, whatever
\* metadata the source held.
C25_TargetHasNoMetadata ==
    mig.pc \in {"loop", "returned"}
    => \A committed \in Committeds : \A data_key \in PruneKeys : \A metadata_key \in MetaKeys :
          TargetGetMetadata(metadata_key, data_key, committed) = None

\* The source held strength metadata in Live and other metadata under a
\* pending transaction whose data was copied.
C25_Witness ==
    /\ PruneSucceeded
    /\ get_metadata("strength", Settings_a, Live) = Some("\"strong\"")
    /\ get_metadata("affected-services", Os_x, Pending("t1")) = Some("\"svc\"")
    /\ TargetGetKey(Os_x, Pending("t1")) = Some("\"hi\"")
    /\ TargetGetMetadata("strength", Settings_a, Live) = None
    /\ TargetGetMetadata("affected-services", Os_x, Pending("t1")) = None

(***************************************************************************)
(* C26                                                                     *)
(***************************************************************************)
\* C26: pruning treats Live and each pending transaction independently:
\* what the pass writes for a dataset is computed only from the data and
\* metadata of the same dataset of the source, so a write (set_key or
\* set_metadata) made to another dataset, such as one marking the key weak
\* there, never changes it, and the non-weak keys of a pending transaction
\* are written under the same transaction.
C26_DatasetsPrunedIndependently ==
    [][\A committed \in Committeds : \A other \in Committeds \ {committed} :
          (last'.op \in {"set_key", "set_metadata"} /\ last'.committed = other)
          => pruned_data(committed)' = pruned_data(committed)]_vars

(***************************************************************************)
(* C27                                                                     *)
(***************************************************************************)
\* C27: the pruning pass only writes to the new copy: the source datastore
\* (its Live data, its pending transactions and all its metadata, weak
\* settings included) is identical before, during and after the pass, also
\* when the pass fails part-way.
C27_SourceUntouched ==
    mig.pc \in {"copy_without_weak_settings", "loop", "returned"}
    => Source = mig.source_before

\* The pass failed on a pending transaction after it had copied Live, from
\* which it had dropped a weak setting.
C27_Witness ==
    /\ mig.pc = "returned"
    /\ mig.result = Some(Err("Deserialize"))
    /\ mig.copied = {Live}
    /\ get_key(Settings_a, Live) # None
    /\ get_metadata("strength", Settings_a, Live) = Some("\"weak\"")
    /\ TargetGetKey(Settings_a, Live) = None


(***************************************************************************)
(* Expansion of settings generators.                                       *)
(***************************************************************************)
\* The call of the expanding worker.
Expansion == handler["w1"]

\* The keys the call added to the result, or gave another value.
AddedKeys ==
    {k \in DOMAIN Expansion.result :
        \/ k \notin DOMAIN Expansion.result_before
        \/ Expansion.result[k] # Expansion.result_before[k]}

\* The segments of the parent of a key.
ParentSegments(key) == SubSeq(segments(key), 1, Len(segments(key)) - 1)

\* The key lies below the key with these segments.
IsDescendant(key, parent_segments) ==
    /\ Len(segments(key)) > Len(parent_segments)
    /\ SubSeq(segments(key), 1, Len(parent_segments)) = parent_segments

\* C28: for a generator on data key K with depth d > 0, every key the
\* expansion adds has len(segments(K)) + d segments, ends with K's last
\* segment and lies below K's parent, and it comes from a populated key other
\* than K that lies below K's parent: K itself and the populated keys
\* elsewhere give no entry.
C28_AddedKeysAreDescendantsAtDepth ==
    (Expansion.pc = "returned" /\ Expansion.raw_setting_generator.depth > 0)
    => LET K == Expansion.data_key
           n == Len(segments(K))
           d == Expansion.raw_setting_generator.depth
       IN \A k \in AddedKeys :
             /\ Len(segments(k)) = n + d
             /\ segments(k)[n + d] = segments(K)[n]
             /\ IsDescendant(k, ParentSegments(K))
             /\ \E c \in DOMAIN live :
                   /\ c # K
                   /\ IsDescendant(c, ParentSegments(K))
                   /\ Len(segments(c)) >= n + d
                   /\ SubSeq(segments(c), 1, n + d - 1) = SubSeq(segments(k), 1, n + d - 1)


\* C29: for a generator with depth 0 the expansion adds exactly one entry,
\* keyed by the data key itself and holding the generator, whatever keys
\* Live holds; the entries the result had for other keys stay as they were.
C29_DepthZeroAddsTheKeyItself ==
    (Expansion.pc = "returned" /\ Expansion.raw_setting_generator.depth = 0)
    => /\ Expansion.response = Some(Ok("expanded"))
       /\ DOMAIN Expansion.result = DOMAIN Expansion.result_before \cup {Expansion.data_key}
       /\ Expansion.result[Expansion.data_key]
             = [command |-> Expansion.raw_setting_generator.command,
                strength |-> Expansion.raw_setting_generator.strength]
       /\ \A k \in DOMAIN Expansion.result_before \ {Expansion.data_key} :
             Expansion.result[k] = Expansion.result_before[k]

\* A depth-zero generator on s.a.g was expanded while Live held keys below
\* s.a and the result held an entry of another key.
C29_Witness ==
    /\ Expansion.pc = "returned"
    /\ Expansion.raw_setting_generator.depth = 0
    /\ Expansion.data_key = S_a_g
    /\ {S_a_m_x, S_a_m_x_y} \subseteq DOMAIN live
    /\ DOMAIN Expansion.result_before # {}
    /\ S_a_g \notin DOMAIN Expansion.result_before


(***************************************************************************)
(* The chain of migrations.                                                *)
(***************************************************************************)
\* The commands of the migration programs run so far: each is
\* <<migration, direction, --source-datastore, --target-datastore>>.
Commands == fs.result_txt

\* C30: the migrations run one after another as a chain.  A migration is
\* run only when the one before it has exited with success; its source is
\* the target of the one before it, and the copy without weak settings for
\* the first; its target differs from the path of every earlier step, and
\* did not exist when the step started.
C30_MigrationsAreChained ==
    /\ [](mig.pc # "none" =>
            \A j \in DOMAIN Commands :
               /\ j = 1 => Commands[j][3] = mig.datastore
               /\ j > 1 => /\ status_success(outcome(j - 1))
                           /\ Commands[j][3] = Commands[j - 1][4]
               /\ Commands[j][4] # mig.datastore
               /\ \A e \in 1 .. j - 1 :
                     /\ Commands[j][4] # Commands[e][3]
                     /\ Commands[j][4] # Commands[e][4])
    /\ [][Len(Commands') > Len(Commands)
            => ~exists(fs, Commands'[Len(Commands')][4])]_vars

\* Three migrations have run and the process went on to flip the links.
C30_Witness ==
    /\ mig.pc = "exited"
    /\ mig.exit_code = 0
    /\ Len(Commands) = MaxMigrations


(***************************************************************************)
(* The directories run_migrations deletes.                                 *)
(***************************************************************************)
\* The directories a step removes.
Deleted == DOMAIN fs.dirs \ DOMAIN fs'.dirs

\* C31: whatever the number of migrations and wherever the chain fails,
\* run_migrations never deletes the copy without weak settings it started
\* from, nor the output of the last migration that ran: every directory it
\* deletes is the output of a migration that a later migration has read and
\* exited from with success.
C31_OnlyConsumedOutputsDeleted ==
    [][\A d \in Deleted :
          /\ d # mig.datastore
          /\ d # Commands'[Len(Commands')][4]
          /\ \E j \in 1 .. Len(Commands') - 1 :
                /\ Commands'[j][4] = d
                /\ Commands'[j + 1][3] = d
                /\ status_success(outcome(j + 1))]_vars

\* The third migration failed after the second had its predecessor's output
\* deleted: the first output is gone, the copy the chain started from and
\* the second output are there.
C31_Witness ==
    /\ mig.pc = "exited"
    /\ mig.exit_code = 1
    /\ Len(Commands) = 3
    /\ Commands[1][4] \notin DOMAIN fs.dirs
    /\ Commands[2][4] \in DOMAIN fs.dirs
    /\ mig.datastore \in DOMAIN fs.dirs


\* The outputs of migrations that are on disk.
MigrationOutputs == {d \in DOMAIN fs.dirs : \E j \in DOMAIN Commands : Commands[j][4] = d}

C33_DeleteFailureIsNotFatal ==
    /\ [][(~mig.delete_failed /\ mig'.delete_failed)
            => /\ mig'.pc = IF mig.i = Len(mig.migrations) THEN "flip" ELSE "run_migrations"
               /\ mig'.i = mig.i + 1
               /\ mig'.source_datastore = Commands'[Len(Commands')][4]]_vars
    /\ []((mig.pc = "exited" /\ mig.delete_failed /\ mig.fail_at = 0 /\ mig.error = "")
            => /\ mig.exit_code = 0
               /\ Len(Commands) = Len(mig.migrations)
               /\ canonicalize(fs, CurrentLink) = Some(Commands[Len(Commands)][4]))

\* A run of three migrations in which a deletion failed has exited 0.
C33_Witness ==
    /\ mig.pc = "exited"
    /\ mig.exit_code = 0
    /\ mig.delete_failed
    /\ Len(Commands) = 3
    /\ canonicalize(fs, CurrentLink) = Some(Commands[3][4])


(***************************************************************************)
(* set_settings.                                                           *)
(***************************************************************************)
\* Worker t runs set_settings for transaction tx in this step.
SetSettingsStep(t, tx) ==
    /\ handler[t].pc = "patch_settings"
    /\ handler[t].tx = tx
    /\ handler'[t].pc = "return"

\* What a reader of Pending{tx} gets: its data and its metadata.
PendingView(tx) ==
    <<get_prefix(EmptyPrefix, Pending(tx)), get_metadata_prefix(EmptyPrefix, Pending(tx), None)>>

\* After the step every key of the settings reads back from Pending{tx} with
\* its value and with the given strength as pending metadata, and Live data
\* and Live metadata are as before.
SetSettingsWritesTransaction(t, tx) ==
    /\ \A k \in DataKeys :
          k \in DOMAIN handler[t].settings
          => /\ (get_key(k, Pending(tx)))' = Some(handler[t].settings[k])
             /\ (get_metadata("strength", k, Pending(tx)))'
                   = Some(serialize_strength(handler[t].strength))
    /\ live' = live
    /\ metadata' = metadata

LiveWeak(k) == get_metadata("strength", k, Live) = Some(serialize_strength(Weak))

\* Worker t is inside commit_transaction.
Committing(t) == handler[t].pc \in {"commit_transaction", "commit_write", "commit_remove"}

\* The check of worker t's commit approves the write in this step.
CommitApproved(t) ==
    /\ handler[t].pc = "commit_transaction"
    /\ handler'[t].pc \in {"commit_write", "commit_remove"}

\* The strength transaction tx asks for data key k is weak.
PendingWeak(k, tx) ==
    get_metadata("strength", k, Pending(tx)) = Some(serialize_strength(Weak))

Promoted(k, tx) ==
    /\ (get_key(k, Live))' = get_key(k, Pending(tx))
    /\ k \in last'.result.v

\* C36 as stated: after a successful commit_transaction(tx) with the
\* controller's check, every data key populated in Pending{tx} before the
\* commit, whatever its prefix, is populated in Live with its pending value
\* and is in the returned key set.
C36_NoPendingWriteLost ==
    [][\A tx \in Txs :
          (Called("commit_transaction", Pending(tx)) /\ last'.result.ok)
          => \A k \in DataKeys : get_key(k, Pending(tx)) # None => Promoted(k, tx)]_vars

\* C36, amended: every pending key under settings. is promoted; a pending
\* key outside settings. is not returned, leaves Live as it was, and is gone
\* with the transaction.
C36_PendingSettingsPromotedOthersDropped ==
    [][\A tx \in Txs :
          (Called("commit_transaction", Pending(tx)) /\ last'.result.ok)
          => \A k \in DataKeys :
                get_key(k, Pending(tx)) # None
                => /\ starts_with(k, SettingsPrefix) => Promoted(k, tx)
                   /\ ~starts_with(k, SettingsPrefix)
                         => /\ k \notin last'.result.v
                            /\ (get_key(k, Live))' = get_key(k, Live)
                   /\ (get_key(k, Pending(tx)))' = None]_vars

\* A commit has returned settings.a, which Live now holds with the pending
\* value, and nothing of the transaction is left; os.x is not in Live.
C36_Witness ==
    /\ last.op = "commit_transaction"
    /\ last.result.ok
    /\ last.result.v = {Settings_a}
    /\ get_key(Settings_a, Live) = Some("\"yo\"")
    /\ last.committed[2] \notin DOMAIN pending
    /\ get_key(Os_x, Live) = None


(***************************************************************************)
(* The transactions list_transactions names.                               *)
(***************************************************************************)
\* The transactions that have at least one pending data key.
TransactionsWithPendingKeys ==
    {tx \in Txs : list_populated_keys(EmptyPrefix, Pending(tx)) # {}}

\* C37: after any sequence of set_key, unset_key, commit_transaction and
\* delete_transaction calls, list_transactions returns exactly the names of
\* the transactions that have at least one pending data key; an unset_key on
\* a transaction never written does not make it appear.
C37_ListedTransactionsHavePendingKeys ==
    list_transactions = TransactionsWithPendingKeys


(***************************************************************************)
(* The version the links name during the flip.                             *)
(***************************************************************************)
\* flip_to_new_version has been entered: the process is in it, has returned
\* from it, or was stopped in it.
FlipEntered == mig.pc # "none" /\ mig.flip_step >= 1

\* C38: in every state from the entry of flip_to_new_version on, also after
\* a crash or a failed link step there, get_current_version reads a version
\* from the link names; it is the target version exactly when current
\* resolves to the new datastore directory, and the original version exactly
\* when current still resolves to the original directory.
C38_LinkNamesAgreeWithCurrent ==
    FlipEntered
    => LET version == get_current_version(fs)
       IN /\ version.ok
          /\ (version.ok /\ version.v = mig.migrate_to_version)
                <=> canonicalize(fs, CurrentLink) = Some(mig.to_datastore)
          /\ (version.ok /\ version.v = FromVersion)
                <=> canonicalize(fs, CurrentLink) = Some(mig.datastore_path)

\* The process was stopped in the flip after the minor link was swapped in:
\* the major link and current are the old ones, and current already
\* resolves to the new directory.
C38_Witness ==
    /\ mig.pc = "crashed"
    /\ mig.flip_step = 5
    /\ canonicalize(fs, CurrentLink) = Some(mig.to_datastore)
    /\ fs.links = [mig.before.links EXCEPT
                       ![minor_version_link(mig.migrate_to_version)] =
                           patch_version_link(mig.migrate_to_version)]
                  @@ (patch_version_link(mig.migrate_to_version) :> mig.to_datastore)


(***************************************************************************)
(* What a successful flip leaves alone.                                    *)
(***************************************************************************)
\* The four links flip_to_new_version swaps for a version.
FlippedLinks(version) ==
    {patch_version_link(version), minor_version_link(version),
     major_version_link(version), CurrentLink}

\* The flip has returned Ok and the process has exited 0.
FlipSucceeded == mig.pc = "exited" /\ mig.exit_code = 0 /\ mig.flip_step >= 1

\* C39: a successful flip_to_new_version to version X changes only the four
\* links vX.Y.Z, vX.Y, vX and current.  Every other link, the previous
\* version's patch link among them, is there with the target it had; no
\* step of the flip changes a datastore directory, and the directory
\* current resolved to before is there with its contents; no temporary link
\* is left.
C39_FlipChangesOnlyFourLinks ==
    /\ [](FlipSucceeded
            => /\ DOMAIN fs.links
                     = (DOMAIN mig.before.links) \cup FlippedLinks(mig.migrate_to_version)
               /\ \A l \in (DOMAIN mig.before.links) \ FlippedLinks(mig.migrate_to_version) :
                     fs.links[l] = mig.before.links[l]
               /\ fs.links[patch_version_link(FromVersion)] = mig.datastore_path
               /\ mig.temp_link \notin DOMAIN fs.links
               /\ \A d \in DOMAIN mig.before.dirs :
                     d \in DOMAIN fs.dirs /\ fs.dirs[d] = mig.before.dirs[d])
    /\ [][mig.pc = "flip" => fs'.dirs = fs.dirs]_vars

\* A flip from 0.99.0 to 0.99.1 has succeeded where an earlier stay at
\* 0.99.1 had left its patch link: the old patch link v0.99.0 still points
\* at the original directory.
C39_Witness ==
    /\ FlipSucceeded
    /\ FromVersion = <<0, 99, 0>>
    /\ mig.migrate_to_version = <<0, 99, 1>>
    /\ patch_version_link(mig.migrate_to_version) \in DOMAIN mig.before.links
    /\ fs.links[patch_version_link(FromVersion)] = mig.datastore_path
    /\ canonicalize(fs, CurrentLink) = Some(mig.to_datastore)


(***************************************************************************)
(* Pruning twice.                                                          *)
(***************************************************************************)
\* C40: weak-setting pruning is idempotent.  The pass made over an already
\* pruned datastore succeeds and writes a datastore with exactly the data
\* keys and values of its source, in Live and in every pending transaction,
\* and still without metadata.
C40_PruningIsIdempotent ==
    (mig.pass = 2 /\ mig.pc = "returned")
    => /\ mig.result = Some(Ok("copied"))
       /\ mig.target.live = live
       /\ \A tx \in Txs :
             unwrap_or(IF tx \in DOMAIN mig.target.pending
                       THEN Some(mig.target.pending[tx]) ELSE None, EmptyMap)
                = unwrap_or(dataset(Pending(tx)), EmptyMap)
       /\ mig.target.metadata = EmptyMap
       /\ mig.target.pending_metadata = EmptyMap

\* The second pass has returned over a pruned datastore that holds a Live
\* value and a pending one.
C40_Witness ==
    /\ mig.pass = 2
    /\ mig.pc = "returned"
    /\ DOMAIN live # {}
    /\ DOMAIN pending # {}
    /\ mig.target.live = live
    /\ mig.target.pending = pending

====
